---------------------------- MODULE Spec2Model ----------------------------
(***************************************************************************)
(* A model of loxi, a tree-walking Lox interpreter written in C: the       *)
(* value heap and its mark-and-sweep collector (garbage_collector.c), the  *)
(* environment chain (environment.c), the resolver (resolver.c) and the    *)
(* evaluator (interpreter.c).                                              *)
(*                                                                         *)
(* Pointers are indices into tables: obj (Object nodes of the pool), env   *)
(* (Environment records), fun / cls / inst / arg (the malloc'ed            *)
(* LoxFunction, LoxClass, LoxInstance and LoxArguments payloads).  NULL is *)
(* 0.  A malloc'ed record that was freed keeps its index with alive =      *)
(* FALSE, so that a later use of it can be seen.                           *)
(***************************************************************************)
EXTENDS Integers, Sequences, FiniteSets, TLC

VARIABLES
    gc,      \* the GarbageCollector struct
    obj,     \* the Object nodes of all memory pages
    env,     \* all Environment records ever allocated
    fun,     \* LoxFunction payloads
    cls,     \* LoxClass payloads
    inst,    \* LoxInstance payloads
    arg,     \* LoxArguments payloads
    fault,   \* "" or the first failed assertion / invalid access
    swept,   \* what the collections run by the last step released
    op,      \* the name of the last step
    hops,    \* number of mutator steps taken by the heap-level specification
    cmp,     \* the operands and the result of a comparison by isEqual
    stack,   \* the C call stack of the evaluator: one frame per active handler
    val,     \* the value the handler that returned last handed to its caller
    it,      \* the Interpreter struct
    out,     \* what was written to stdout and stderr
    run,     \* main.c: the program being run, the line reached, the error flags
    probe,   \* the last slot access and the last entry into function_call
    ast      \* the syntax trees parse built: one node per statement, expression
             \* or token

vars == <<gc, obj, env, fun, cls, inst, arg, fault, swept, op, hops, cmp,
          stack, val, it, out, run, probe, ast>>

NULL == 0
GC_CLEAR == -1

(***************************************************************************)
(* Limits.  The program's limits are scaled down so that TLC reaches them. *)
(***************************************************************************)
\* Object nodes per memory page (GC_OBJECTS_PER_PAGE, about 170 in the build)
GC_OBJECTS_PER_PAGE == 4
\* pages the model lets gcAllocObjects take; the next one is out of memory
MaxPages == 12
\* LOX_MAX_ENVIRONMENTS (31*1024 in the build)
LOX_MAX_ENVIRONMENTS == 8
\* GC_INITIAL_ENVIRONMENTS_THRESHOLD (32 in the build)
GC_INITIAL_ENVIRONMENTS_THRESHOLD == 2
\* GC_LOCKS_STACK_SIZE (4096 in the build)
GC_LOCKS_STACK_SIZE == 10
\* the value at which the marks wrap back to 0 and 1 (1 << 30 in the build)
GC_MARK_WRAP == 6
\* mutator steps of the heap-level specification
MaxHeapOps == 5
\* payload records of each kind the heap-level specification creates
MaxPayloads == 2

Max(a, b) == IF a < b THEN b ELSE a

Range(s) == {s[i] : i \in 1..Len(s)}

(***************************************************************************)
(* Records                                                                 *)
(***************************************************************************)
\* An Object node: the tagged union of objects.h.
NewObject(type, p, b, n, nan, s) ==
    [type |-> type, marked |-> GC_CLEAR, p |-> p, b |-> b, n |-> n,
     nan |-> nan, s |-> s]

UnusedObject == NewObject("OT_UNUSED", NULL, FALSE, 0, FALSE, "")

\* The bundle of the heap variables, as the collector's functions see it.
\* ret is the value the last function returned; swept collects what the
\* collections run during the step released.
Heap == [gc |-> gc, obj |-> obj, env |-> env, fun |-> fun, cls |-> cls,
         inst |-> inst, arg |-> arg, fault |-> fault, swept |-> {}, ret |-> NULL]

SetHeap(h) ==
    /\ gc' = h.gc
    /\ obj' = h.obj
    /\ env' = h.env
    /\ fun' = h.fun
    /\ cls' = h.cls
    /\ inst' = h.inst
    /\ arg' = h.arg
    /\ fault' = h.fault
    /\ swept' = h.swept

Fault(h, what) == IF h.fault = "" THEN [h EXCEPT !.fault = what] ELSE h

(***************************************************************************)
(* garbage_collector.c                                                     *)
(***************************************************************************)
\* gcAllocObjects: one more page of unused nodes, put in front of the free list.
gcAllocObjects(h) ==
    IF h.gc.pages >= MaxPages THEN Fault(h, "fatal_outOfMemory") ELSE
    LET first == Len(h.obj) + 1
        page  == [i \in 1..GC_OBJECTS_PER_PAGE |-> first + i - 1]
        count == h.gc.objectsCount + GC_OBJECTS_PER_PAGE
    IN [h EXCEPT
          !.obj = h.obj \o [i \in 1..GC_OBJECTS_PER_PAGE |-> UnusedObject],
          !.gc.firstUnused = page \o h.gc.firstUnused,
          !.gc.objectsCount = count,
          !.gc.pages = h.gc.pages + 1,
          !.gc.maxObjects = Max(h.gc.maxObjects, count)]

\* gcInit: an empty collector with two pages of nodes.
gcInit ==
    LET g == [firstObject |-> <<>>, firstUnused |-> <<>>,
              objectsCount |-> 0, maxObjects |-> 0,
              firstEnvironment |-> <<>>, firstUnusedEnvironment |-> <<>>,
              environmentsCount |-> 0,
              maxEnvironments |-> GC_INITIAL_ENVIRONMENTS_THRESHOLD,
              visitedMark |-> 0, recycledMark |-> 1,
              locked |-> <<>>, pages |-> 0, laundryList |-> <<>>,
              activeObjectsCount |-> 0, activeEnvironmentsCount |-> 0]
        h0 == [gc |-> g, obj |-> <<>>, env |-> <<>>, fun |-> <<>>,
               cls |-> <<>>, inst |-> <<>>, arg |-> <<>>, fault |-> "",
               swept |-> {}, ret |-> NULL]
    IN gcAllocObjects(gcAllocObjects(h0))

RECURSIVE gcMarkObject(_, _), gcMarkEnvironment(_, _), gcMarkClass(_, _),
          gcMarkSlots(_, _, _), gcMarkMethods(_, _, _), gcMarkSuper(_, _)

\* the loop of gcMarkEnvironment, of gcMarkArguments and of gcMarkInstance
gcMarkSlots(values, index, h) ==
    IF index > Len(values) THEN h
    ELSE gcMarkSlots(values, index + 1, gcMarkObject(values[index], h))

\* the loop of gcMarkClass over the method table
gcMarkMethods(methods, index, h) ==
    IF index > Len(methods) THEN h
    ELSE gcMarkMethods(methods, index + 1,
             gcMarkEnvironment(h.fun[methods[index].function].closure, h))

gcMarkSuper_Skip(super, h) == h

\* the end of gcMarkClass: the superclass, unless it carries the mark
gcMarkSuper(super, h) ==
    IF super # NULL /\ h.cls[super].marked # h.gc.visitedMark
    THEN gcMarkClass(super, h)
    ELSE h

gcMarkClass(klass, h) ==
    IF ~h.cls[klass].alive THEN Fault(h, "gcMarkClass: freed class")
    ELSE gcMarkSuper(h.cls[klass].superClass,
             gcMarkMethods(h.cls[klass].methods, 1,
                 [h EXCEPT !.cls[klass].marked = h.gc.visitedMark]))

gcMarkArguments(a, h) ==
    IF ~h.arg[a].alive THEN Fault(h, "gcMarkArguments: freed arguments")
    ELSE gcMarkSlots(h.arg[a].values, 1, h)

gcMarkFunction(function, h) ==
    IF ~h.fun[function].alive THEN Fault(h, "gcMarkFunction: freed function")
    ELSE gcMarkEnvironment(h.fun[function].closure,
             [h EXCEPT !.fun[function].marked = h.gc.visitedMark])

gcMarkInstance(instance, h) ==
    IF ~h.inst[instance].alive THEN Fault(h, "gcMarkInstance: freed instance")
    ELSE gcMarkClass(h.inst[instance].klass,
             gcMarkSlots([i \in 1..Len(h.inst[instance].fields) |->
                             h.inst[instance].fields[i].value], 1,
                         [h EXCEPT !.inst[instance].marked = h.gc.visitedMark]))

gcMarkObject(object, h) ==
    IF object = NULL THEN h
    ELSE IF h.obj[object].marked = h.gc.visitedMark THEN h
    ELSE
    LET h1 == [h EXCEPT !.obj[object].marked = h.gc.visitedMark]
        type == h.obj[object].type
        p == h.obj[object].p
    IN CASE type = "OT_ARGUMENTS" -> gcMarkArguments(p, h1)
         [] type = "OT_CLASS" -> gcMarkClass(p, h1)
         [] type = "OT_FUNCTION" -> gcMarkFunction(p, h1)
         [] type = "OT_INSTANCE" -> gcMarkInstance(p, h1)
         [] type = "OT_UNUSED" -> Fault(h1, "gcMarkObject: OT_UNUSED")
         [] OTHER -> h1

gcMarkEnvironment(environment, h) ==
    IF environment = NULL THEN h
    ELSE IF h.env[environment].marked = h.gc.visitedMark THEN h
    ELSE gcMarkEnvironment(h.env[environment].enclosing,
             gcMarkSlots(SubSeq(h.env[environment].values, 1,
                                h.env[environment].slotsUsed), 1,
                         [h EXCEPT !.env[environment].marked = h.gc.visitedMark]))


\* lox_free of a LoxFunction (function_free)
function_free(function, h) ==
    IF ~h.fun[function].alive THEN Fault(h, "function_free: double free")
    ELSE [h EXCEPT !.fun[function].alive = FALSE,
                   !.swept = @ \cup {<<"fun", function>>}]

RECURSIVE classFreeMethods(_, _, _)
classFreeMethods(methods, index, h) ==
    IF index > Len(methods) THEN h
    ELSE classFreeMethods(methods, index + 1,
                          function_free(methods[index].function, h))

classFree(klass, h) ==
    IF ~h.cls[klass].alive THEN Fault(h, "classFree: double free")
    ELSE [classFreeMethods(h.cls[klass].methods, 1, h)
             EXCEPT !.cls[klass].alive = FALSE,
                    !.swept = @ \cup {<<"cls", klass>>}]

instanceFree(instance, h) ==
    IF ~h.inst[instance].alive THEN Fault(h, "instanceFree: double free")
    ELSE [h EXCEPT !.inst[instance].alive = FALSE,
                   !.swept = @ \cup {<<"inst", instance>>}]

argumentsFree(a, h) ==
    IF ~h.arg[a].alive THEN Fault(h, "argumentsFree: double free")
    ELSE [h EXCEPT !.arg[a].alive = FALSE,
                   !.swept = @ \cup {<<"arg", a>>}]

\* the tail of gcRelease: the node becomes the head of the free list
gcRecycle(object, h) ==
    [h EXCEPT !.obj[object].type = "OT_UNUSED",
              !.gc.firstUnused = <<object>> \o h.gc.firstUnused,
              !.swept = @ \cup {<<"obj", object>>}]

\* a gcRelease that sends every wrapper of an unvisited payload to the laundry
gcReleaseShared_Every(object, alive, marked, table, h) ==
    IF ~alive THEN Fault(h, "gcRelease: freed payload")
    ELSE IF marked # h.gc.visitedMark
    THEN [h EXCEPT ![table][h.obj[object].p].marked = h.gc.recycledMark,
                   !.gc.laundryList = <<object>> \o h.gc.laundryList]
    ELSE [h EXCEPT !.obj[object].type = "OT_UNUSED",
                   !.gc.firstUnused = <<object>> \o h.gc.firstUnused,
                   !.swept = @ \cup {<<"obj", object>>}]

\* the three shared-payload cases of gcRelease
gcReleaseShared(object, alive, marked, table, h) ==
    IF ~alive THEN Fault(h, "gcRelease: freed payload")
    ELSE IF marked # h.gc.visitedMark /\ marked # h.gc.recycledMark
    THEN [h EXCEPT ![table][h.obj[object].p].marked = h.gc.recycledMark,
                   !.gc.laundryList = <<object>> \o h.gc.laundryList]
    ELSE gcRecycle(object, h)

gcRelease(object, h) ==
    LET type == h.obj[object].type
        p == h.obj[object].p
    IN CASE type = "OT_ARGUMENTS" -> gcRecycle(object, argumentsFree(p, h))
         [] type = "OT_CLASS" ->
              gcReleaseShared(object, h.cls[p].alive, h.cls[p].marked, "cls", h)
         [] type = "OT_FUNCTION" ->
              gcReleaseShared(object, h.fun[p].alive, h.fun[p].marked, "fun", h)
         [] type = "OT_INSTANCE" ->
              gcReleaseShared(object, h.inst[p].alive, h.inst[p].marked, "inst", h)
         [] type = "OT_UNUSED" -> Fault(h, "gcRelease: OT_UNUSED")
         [] OTHER -> gcRecycle(object, h)

RECURSIVE gcSweepObjects(_, _, _), gcSweepLaundry(_), gcSweepEnvironments(_, _, _)

\* first loop of gcSweep; kept are the nodes that stay in firstObject
gcSweepObjects(list, kept, h) ==
    IF list = <<>> THEN [h EXCEPT !.gc.firstObject = kept]
    ELSE LET object == Head(list) IN
         IF h.obj[object].marked = h.gc.recycledMark
         THEN Fault(h, "gcSweep: recycledMark on a tracked object")
         ELSE IF h.obj[object].marked = h.gc.visitedMark
         THEN gcSweepObjects(Tail(list), Append(kept, object), h)
         ELSE gcSweepObjects(Tail(list), kept,
                  [gcRelease(object, h) EXCEPT !.gc.activeObjectsCount = @ - 1])

\* second loop of gcSweep: the payloads of the laundry list are freed
gcSweepLaundry(h) ==
    IF h.gc.laundryList = <<>> THEN h
    ELSE LET object == Head(h.gc.laundryList)
             type == h.obj[object].type
             p == h.obj[object].p
         IN gcSweepLaundry(gcRecycle(object,
                [(CASE type = "OT_CLASS" -> classFree(p, h)
                    [] type = "OT_FUNCTION" -> function_free(p, h)
                    [] type = "OT_INSTANCE" -> instanceFree(p, h)
                    [] OTHER -> Fault(h, "gcSweep: invalid laundry"))
                 EXCEPT !.gc.laundryList = Tail(h.gc.laundryList)]))

\* third loop of gcSweep: unmarked environments go to the unused list
gcSweepEnvironments(list, kept, h) ==
    IF list = <<>> THEN [h EXCEPT !.gc.firstEnvironment = kept]
    ELSE LET e == Head(list) IN
         IF h.env[e].marked = h.gc.visitedMark
         THEN gcSweepEnvironments(Tail(list), Append(kept, e), h)
         ELSE gcSweepEnvironments(Tail(list), kept,
                  [h EXCEPT !.gc.firstUnusedEnvironment =
                                <<e>> \o h.gc.firstUnusedEnvironment,
                            !.gc.activeEnvironmentsCount = @ - 1,
                            !.swept = @ \cup {<<"env", e>>}])

gcSweepAllEnvironments(h) == gcSweepEnvironments(h.gc.firstEnvironment, <<>>, h)

gcSweep(h) ==
    gcSweepAllEnvironments(gcSweepLaundry(gcSweepObjects(h.gc.firstObject, <<>>, h)))

RECURSIVE gcMarkActive(_, _, _)
\* second loop of gcCollect: the environments with isActive are roots
gcMarkActive(list, index, h) ==
    IF index > Len(list) THEN h
    ELSE gcMarkActive(list, index + 1,
             IF h.env[list[index]].isActive
             THEN gcMarkEnvironment(list[index], h) ELSE h)

\* the marking half of gcCollect
gcMark(h) ==
    gcMarkActive(h.gc.firstEnvironment, 1, gcMarkSlots(h.gc.locked, 1, h))

\* the end of gcCollect: the thresholds of the next collection, new marks
gcNextCycle(h) ==
    LET wrap == h.gc.visitedMark + 2 = GC_MARK_WRAP
    IN [h EXCEPT
          !.gc.maxObjects = Max(2 * h.gc.activeObjectsCount, h.gc.objectsCount),
          !.gc.maxEnvironments =
              Max(2 * h.gc.activeEnvironmentsCount, h.gc.objectsCount),
          !.gc.visitedMark = IF wrap THEN 0 ELSE h.gc.visitedMark + 2,
          !.gc.recycledMark = IF wrap THEN 1 ELSE h.gc.recycledMark + 2]

gcCollect(h) == gcNextCycle(gcSweep(gcMark(h)))

\* gcGetObject without the GC_DEBUG collection: a node of the free list,
\* after a collection and a new page when the list is empty.
\* the end of gcGetObject: the head of the free list becomes a tracked node
gcTakeUnused(h) ==
    IF h.gc.firstUnused = <<>> THEN [h EXCEPT !.ret = NULL]
    ELSE LET object == Head(h.gc.firstUnused)
         IN [h EXCEPT !.gc.firstUnused = Tail(h.gc.firstUnused),
                      !.gc.firstObject = <<object>> \o h.gc.firstObject,
                      !.gc.activeObjectsCount = @ + 1,
                      !.obj[object].marked = GC_CLEAR,
                      !.ret = object]

\* gcGetObject, second test of the free list: a new page when it is empty
gcGrow(h) == IF h.gc.firstUnused = <<>> THEN gcAllocObjects(h) ELSE h

\* gcGetObject, first test of the free list: a collection at the threshold
gcRefill(h) ==
    IF h.gc.firstUnused # <<>> THEN h
    ELSE gcGrow(IF h.gc.objectsCount >= h.gc.maxObjects THEN gcCollect(h) ELSE h)

\* gcGetObject; debug is the GC_DEBUG build option (collect at every request)
gcGetObject(debug, h) ==
    gcTakeUnused(gcRefill(IF debug THEN gcCollect(h) ELSE h))

\* the record a fresh or recycled Environment holds after env_init; names is
\* the name table of the global environment
NewEnvironment(enclosing) ==
    [enclosing |-> enclosing, values |-> <<>>, names |-> <<>>, places |-> <<>>,
     slotsUsed |-> 0, marked |-> GC_CLEAR, isActive |-> TRUE]

\* gcGetEnvironment without the GC_DEBUG collection; ret is NULL at the cap
\* the end of gcGetEnvironment: an unused environment, or a new one below
\* the cap; ret is NULL at the cap
gcTakeEnvironment(h) ==
    LET unused == h.gc.firstUnusedEnvironment
        e == Len(h.env) + 1
    IN IF unused # <<>>
       THEN [h EXCEPT !.gc.firstUnusedEnvironment = Tail(unused),
                      !.gc.firstEnvironment = <<Head(unused)>> \o @,
                      !.env[Head(unused)].marked = GC_CLEAR,
                      !.gc.activeEnvironmentsCount = @ + 1,
                      !.ret = Head(unused)]
       ELSE IF h.gc.environmentsCount >= LOX_MAX_ENVIRONMENTS
       THEN [h EXCEPT !.ret = NULL]
       ELSE [h EXCEPT !.env = Append(@, NewEnvironment(NULL)),
                      !.gc.environmentsCount = @ + 1,
                      !.gc.firstEnvironment = <<e>> \o @,
                      !.gc.activeEnvironmentsCount = @ + 1,
                      !.ret = e]

\* gcGetEnvironment, the collection at the threshold
gcRefillEnvironments(h) ==
    IF h.gc.firstUnusedEnvironment = <<>>
       /\ h.gc.environmentsCount >= h.gc.maxEnvironments
    THEN gcCollect(h) ELSE h

gcGetEnvironment(debug, h) ==
    gcTakeEnvironment(gcRefillEnvironments(IF debug THEN gcCollect(h) ELSE h))

\* gcSetGlobalEnvironment, with the record env_initGlobal fills in
gcSetGlobalEnvironment(h) ==
    LET e == Len(h.env) + 1
    IN [h EXCEPT !.env = Append(@, NewEnvironment(NULL)),
                 !.gc.environmentsCount = @ + 1,
                 !.gc.firstEnvironment = <<e>> \o @,
                 !.gc.activeEnvironmentsCount = @ + 1,
                 !.ret = e]

\* a gcLock that reports success and pins nothing
gcLock_Unpinned(object, h) == [h EXCEPT !.ret = 1]

\* a gcLock that never finds the pin stack full
gcLock_Unbounded(object, h) == [h EXCEPT !.gc.locked = Append(@, object), !.ret = 1]

\* gcLock: ret is 1 when the object was pinned, 0 when the pin stack is full
gcLock(object, h) ==
    IF Len(h.gc.locked) = GC_LOCKS_STACK_SIZE THEN [h EXCEPT !.ret = 0]
    ELSE [h EXCEPT !.gc.locked = Append(@, object), !.ret = 1]

gcPopLockn(n, h) ==
    IF Len(h.gc.locked) < n THEN Fault(h, "gcPopLockn: assert(lockedCount >= 0)")
    ELSE [h EXCEPT !.gc.locked = SubSeq(@, 1, Len(@) - n)]

gcPopLock(h) ==
    IF h.gc.locked = <<>> THEN Fault(h, "gcPopLock: assert(lockedCount > 0)")
    ELSE gcPopLockn(1, h)

\* a gcClearLocks that leaves the pins where they are
gcClearLocks_Keep(h) == h

gcClearLocks(h) == [h EXCEPT !.gc.locked = <<>>]

(***************************************************************************)
(* objects.h, objects.c                                                    *)
(***************************************************************************)
\* objNew and the field the obj_new... / obj_wrap... constructors set
objSet(object, h) ==
    IF h.ret = NULL THEN h ELSE [h EXCEPT !.obj[h.ret] = object]

objNew(type, p, b, n, nan, s, debug, h) ==
    objSet(NewObject(type, p, b, n, nan, s), gcGetObject(debug, h))

obj_newNil(debug, h) == objNew("OT_NIL", NULL, FALSE, 0, FALSE, "", debug, h)
obj_newBoolean(b, debug, h) == objNew("OT_BOOLEAN", NULL, b, 0, FALSE, "", debug, h)
obj_newNumber(n, nan, debug, h) == objNew("OT_NUMBER", NULL, FALSE, n, nan, "", debug, h)
obj_newString(s, debug, h) == objNew("OT_STRING", NULL, FALSE, 0, FALSE, s, debug, h)
obj_newCallable(s, n, debug, h) == objNew("OT_CALLABLE", NULL, FALSE, n, FALSE, s, debug, h)
obj_wrapClass(k, debug, h) == objNew("OT_CLASS", k, FALSE, 0, FALSE, "", debug, h)
obj_wrapFunction(f, debug, h) == objNew("OT_FUNCTION", f, FALSE, 0, FALSE, "", debug, h)
obj_wrapInstance(i, debug, h) == objNew("OT_INSTANCE", i, FALSE, 0, FALSE, "", debug, h)
obj_wrapArguments(a, debug, h) == objNew("OT_ARGUMENTS", a, FALSE, 0, FALSE, "", debug, h)

\* obj_dup: scalars, strings and natives are copied, the Function, Class
\* and Instance payloads are shared by the copy.
obj_dup(o, debug, h) ==
    LET x == h.obj[o]
    IN IF x.type \in {"OT_ARGUMENTS", "OT_UNUSED"}
       THEN Fault(h, "obj_dup: invalid case")
       ELSE objNew(x.type, x.p, x.b, x.n, x.nan, x.s, debug, h)

\* isEqual: by type; a pair of types without a case compares unequal.  A
\* Number that is NaN is unequal to every Number, as C's == on doubles.
isEqual(a, b, h) ==
    LET x == h.obj[a]
        y == h.obj[b]
    IN IF x.type = "OT_NIL" /\ y.type = "OT_NIL" THEN TRUE
       ELSE IF x.type = "OT_BOOLEAN" /\ y.type = "OT_BOOLEAN" THEN x.b = y.b
       ELSE IF x.type = "OT_CALLABLE" /\ y.type = "OT_CALLABLE" THEN x.s = y.s
       ELSE IF x.type = "OT_FUNCTION" /\ y.type = "OT_FUNCTION"
       THEN /\ h.fun[x.p].declaration = h.fun[y.p].declaration
            /\ h.fun[x.p].closure = h.fun[y.p].closure
       ELSE IF x.type = "OT_NUMBER" /\ y.type = "OT_NUMBER"
       THEN ~x.nan /\ ~y.nan /\ x.n = y.n
       ELSE IF x.type = "OT_STRING" /\ y.type = "OT_STRING" THEN x.s = y.s
       ELSE FALSE

\* isTruthy: nil and false are falsey
isTruthy(o, h) ==
    IF h.obj[o].type = "OT_NIL" THEN FALSE
    ELSE IF h.obj[o].type = "OT_BOOLEAN" THEN h.obj[o].b
    ELSE TRUE

(***************************************************************************)
(* Payload constructors: lox_function.c, lox_class.c, lox_instance.c       *)
(***************************************************************************)
function_init(declaration, closure, isInitializer, h) ==
    [h EXCEPT !.fun = Append(@, [alive |-> TRUE, marked |-> GC_CLEAR,
                                 declaration |-> declaration,
                                 closure |-> closure,
                                 isInitializer |-> isInitializer]),
              !.ret = Len(h.fun) + 1]

instanceInit(klass, h) ==
    [h EXCEPT !.inst = Append(@, [alive |-> TRUE, marked |-> GC_CLEAR,
                                  klass |-> klass, fields |-> <<>>]),
              !.ret = Len(h.inst) + 1]

argumentsInit(h) ==
    [h EXCEPT !.arg = Append(@, [alive |-> TRUE, values |-> <<>>, count |-> 0]),
              !.ret = Len(h.arg) + 1]

(***************************************************************************)
(* environment.c, environment.h                                            *)
(***************************************************************************)
\* env_init: ret is the environment, or NULL when gcGetEnvironment failed
envSet(enclosing, h) ==
    IF h.ret = NULL THEN h ELSE [h EXCEPT !.env[h.ret] = NewEnvironment(enclosing)]

env_init(enclosing, debug, h) == envSet(enclosing, gcGetEnvironment(debug, h))

env_initGlobal(h) == gcSetGlobalEnvironment(h)

\* an env_release that leaves the environment in use
env_release_Stays(e, h) == h

env_release(e, h) == [h EXCEPT !.env[e].isActive = FALSE]

(***************************************************************************)
(* The programs                                                            *)
(***************************************************************************)
\*AST-BEGIN
\* The sessions, as Lox source:
\*   1. closure (script)
\*        var a = 1; fun f(x) { return x + a; } print f(2);
\*   2. selfassign (script)
\*        { var a = (a = 1); }
\*   3. control (script)
\*        var i = 0;
\*        while (i < 2) { if (i == 1 or i > 5) print -i; else print !(i == 0 and true); i = i + 1; }
\*        print "a" + "b"; print clock() == nil;
\*   4. classes (script)
\*        class A { init(x) { this.x = x; } }
\*        var a = A(1); print a.x; print a; print A;
\*   5. super (script)
\*        class A { get() { return 1; } }
\*        class B < A { get() { return super.get() + 1; } }
\*        print B().get();
\*   6. bound (script)
\*        class A { m() { return this; } }
\*        var a = A(); a.f = a.m; print a.f(); print a.f;
\*   7. inherited (interactive)
\*        class A { init(x) { } } class B < A { }
\*        B(1);
\*        B();
\*   8. errors (interactive)
\*        fun f() { return 1 + nil; }
\*        { var a = 1; { print 2 * (a + f()); } }
\*        print 1;
\*        return 1;
\*        fun q() { { print 1 + quit(); } }
\*        q();
\*   9. errors2 (interactive)
\*        var s = "s"; s.x;
\*        class C < s { }
\*        class D { m() { return super.m; } }
\*        class E { } class F < E { m() { return super.z; } }
\*        F().m();
\*        F().y;
\*        s();
\*        -s;
\*   10. toplevel (script)
\*        return 1;
\*   11. pins (script)
\*        fun f() { f(); }
\*        f();
\*   12. capcall (script)
\*        fun g() { { g(); } }
\*        { g(); }
\*   13. capblock (script)
\*        fun f() { { f(); } }
\*        f();
\*   14. capclass (script)
\*        class A { } { { { { { { { class B < A { } } } } } } } }
\*   15. capbind (script)
\*        class A { m() { } } var a = A(); { { { { { { { a.m; } } } } } } }
\*   16. capinit (script)
\*        class A { init() { } } { { { { { { { A(); } } } } } } }
\*   17. helpprint (interactive)
\*        print help();
\*   18. helpnot (interactive)
\*        if (!help()) print 1;
\*   19. helpequal (interactive)
\*        print help() == nil;
\*   20. helpvar (interactive)
\*        var x = help(); print x;
\*   21. helpassign (interactive)
\*        var x = 1; x = help();
\*   22. helpfield (interactive)
\*        class A { } var a = A(); a.f = help(); print a.f;
\*   23. helpreturn (interactive)
\*        fun f() { return help(); } print f();
\*   24. capgarbage (script)
\*        { { { { { { { 1; { } } } } } } } }
\*   25. initcall (script)
\*        class A { init(x) { this.x = x; if (x == 3) return; this.y = x; } }
\*        var a = A(3); var b = a.init(2); b.x = 5; print a.x; print a.y;
\*   26. initreturn (script)
\*        class A { init(x) { if (x == 3) return; this.y = x; } }
\*        fun g() { return; }
\*        var a = A(2); print a.init(3).y; print g();
\*   27. shadow (script)
\*        class A { m() { return 1; } n() { return 2; } }
\*        class B < A { n() { return 3; } }
\*        var b = B(); print b.n(); print b.m(); b.m = 4; print b.m;
\*   28. superdeep (script)
\*        class A { who() { return this.n; } }
\*        class B < A { who() { { fun f() { return super.who(); } return f; } } }
\*        var b = B(); b.n = 7; print b.who()();
\*   29. callorder (script)
\*        fun p(x) { print x; return x; }
\*        fun two(a, b) { return a; }
\*        print two(p(1), p(2)); "s"(p(3));
\*   30. binorder (interactive)
\*        fun p(x) { print x; return x; }
\*        print p("a") < p(1);
\*        print p(1) / p(0);
\*   31. shortcircuit (script)
\*        fun p(x) { print x; return x; }
\*        print p(nil) and p(1); print p(2) or p(3);
\*        print p(false) or p(4); print p(5) and p(6);
\*   32. returns (script)
\*        fun f() { var i = 0; while (i < 3) { if (i == 1) { return i; } i = i + 1; print i; } print 9; }
\*        print f(); print 2;
\*   33. errorline (interactive)
\*        var a = 1; print a + nil; print 9;
\*        print a; fun f() { { f(); } } f(); print 8;
\*        print a;
\*   34. returnctx (interactive)
\*        fun f() { { return 1; } } return 2; { return 3; }
\*        class A { m() { fun g() { return 4; } while (true) { return g; } } } if (true) return 6; else { return 7; }
\*        fun h() { return 8; } print h();
\*        while (false) return 9;
\*   35. initreturns (interactive)
\*        class A { init() { return 1; } }
\*        class B { init() { return; } }
\*        class C { init() { fun g() { return 2; } } m() { return 3; } }
\*        fun init() { return 4; }
\*        class D { init() { { if (true) return 5; } class E { m() { return 6; } init() { while (true) return 7; } } return 8; } }
\*        print init(); print C().m(); print B();
\*   36. classctx (interactive)
\*        print this;
\*        fun f() { return this; }
\*        print super.m;
\*        class A { m() { return super.m; } }
\*        class B < A { m() { class C { n() { return super.n; } } return super.m; } }
\*        class D { m() { class E < D { n() { return super.m; } } return super.m; } }
\*        class F < D { m() { fun g() { return this; } return super.m; } } print this;
\*        class G { m() { fun g() { return this; } return g; } } print G().m()();
\*   37. owninit (interactive)
\*        { var a = a; }
\*        { var a = 1; { var a = a + 1; } }
\*        fun f(b) { var c = -c; print b; }
\*        { var d = 1; { var e = d; print e; } }
\*        { var g = 1; { var g = (g = 2); print g; } print g; }
\*   38. globals (interactive)
\*        print u;
\*        u = 1;
\*        var a = 1; a = 2; print a;
\*        var a = 3; print a;
\*        var b; print b; b = a; var a; print b; print a;
\*        print u;
\*   39. probing (interactive)
\*        var gs = 1; print gs;
\*        print wc;
\*        wc = 2;
\*        var wc = 3; print wc; print gs;
\*   40. fields (interactive)
\*        class A {} var a = A(); a.p = 1; a.q = 2; a.p = 3; a.r = a.p; print a.r;
\*        a.q = 4; a.s = 5; print a.s;
\*        print a.q;
\*   41. quit (interactive)
\*        var a = 1; print a; quit(); print 2; a = 3;
\*        print a;
\*   42. natives (script)
\*        print clock() == nil;
\*        print quit;
\*   43. counter (script)
\*        fun mk() { var n = 0; { var k = 10; fun inc() { n = n + 1; return n + k; } return inc; } }
\*        var c = mk(); print c(); print c();
\*   44. blocks (script)
\*        var a = 1; var b = 2; var c = 3; var d = 4; var e = 5; var f = 6; var g = 7; var h = 8;
\*        {} {} {} {} {} {} {} {}
\*        {} {} {} {} {} {} {}
\*        print a;
\*   45. sidetable (interactive)
\*        { var a = 1; print a + a + a + a + a + a + a + a; }
\*        { var b = 2; print b + b + b + b + b + b + b + b; }
\*        print clock;
\*   46. methods (script)
\*        class A { a() { return 1; } b() { return 2; } c() { return 3; } d() { return 4; } }
\*        print A().d();
\*   47. locals (script)
\*        { var a = 1; var b = 2; var c = 3; var d = 4; var e = 5; var f = 6; var g = 7; var h = 8; var i = 9; var j = 10; print a + j; }
\*        fun sum(p, q) { var r = p + q; { var s = r; return s; } }
\*        print sum(1, 2);
\*   48. toomany (interactive)
\*        { var a; var b; var c; var d; var e; var f; var g; var h; var i; var j; var k; print k; }
\*        { var a = 1; { var b = a; print b; } }
\*   49. fullglobals (script)
\*        var a = 1; var b = 2; var c = 3; var d = 4; var e = 5; var f = 6; var g = 7; var h = 8; var i = 9;
\*        var a = 10; print a;
\*        var j = 11;
\*        var k = 12;
\*        print i;
\*   50. overflow (interactive)
\*        fun f(n) { return f(n + 1); }
\*        print f(1);
\*        fun g() { return 7; } print g();
Sessions ==
    <<[isREPL |-> FALSE, units |-> <<<<2, 7, 11>>>>],
      [isREPL |-> FALSE, units |-> <<<<17>>>>],
      [isREPL |-> FALSE, units |-> <<<<19, 49, 53, 58>>>>],
      [isREPL |-> FALSE, units |-> <<<<65, 69, 72, 74, 76>>>>],
      [isREPL |-> FALSE, units |-> <<<<80, 88, 93>>>>],
      [isREPL |-> FALSE, units |-> <<<<97, 100, 106, 110, 113>>>>],
      [isREPL |-> TRUE, units |-> <<<<115, 117>>, <<121>>, <<124>>>>],
      [isREPL |-> TRUE, units |-> <<<<129>>, <<141>>, <<143>>, <<145>>, <<152>>, <<155>>>>],
      [isREPL |-> TRUE, units |-> <<<<157, 160>>, <<162>>, <<166>>, <<167, 172>>, <<177>>, <<181>>, <<184>>, <<187>>>>],
      [isREPL |-> FALSE, units |-> <<<<189>>>>],
      [isREPL |-> FALSE, units |-> <<<<193, 196>>>>],
      [isREPL |-> FALSE, units |-> <<<<201, 205>>>>],
      [isREPL |-> FALSE, units |-> <<<<210, 213>>>>],
      [isREPL |-> FALSE, units |-> <<<<214, 223>>>>],
      [isREPL |-> FALSE, units |-> <<<<225, 228, 238>>>>],
      [isREPL |-> FALSE, units |-> <<<<240, 250>>>>],
      [isREPL |-> TRUE, units |-> <<<<253>>>>],
      [isREPL |-> TRUE, units |-> <<<<259>>>>],
      [isREPL |-> TRUE, units |-> <<<<264>>>>],
      [isREPL |-> TRUE, units |-> <<<<267, 269>>>>],
      [isREPL |-> TRUE, units |-> <<<<271, 276>>>>],
      [isREPL |-> TRUE, units |-> <<<<277, 280, 286, 289>>>>],
      [isREPL |-> TRUE, units |-> <<<<293, 296>>>>],
      [isREPL |-> FALSE, units |-> <<<<306>>>>],
      [isREPL |-> FALSE, units |-> <<<<323, 327, 332, 337, 340, 343>>>>],
      [isREPL |-> FALSE, units |-> <<<<355, 357, 361, 367, 370>>>>],
      [isREPL |-> FALSE, units |-> <<<<377, 382, 385, 389, 393, 398, 401>>>>],
      [isREPL |-> FALSE, units |-> <<<<406, 416, 419, 424, 429>>>>],
      [isREPL |-> FALSE, units |-> <<<<434, 437, 446, 452>>>>],
      [isREPL |-> TRUE, units |-> <<<<457>>, <<465>>, <<473>>>>],
      [isREPL |-> FALSE, units |-> <<<<478, 486, 494, 502, 510>>>>],
      [isREPL |-> FALSE, units |-> <<<<535, 538, 540>>>>],
      [isREPL |-> TRUE, units |-> <<<<542, 546, 548>>, <<550, 555, 558, 560>>, <<562>>>>],
      [isREPL |-> TRUE, units |-> <<<<566, 568, 571>>, <<581, 588>>, <<591, 594>>, <<598>>>>],
      [isREPL |-> TRUE, units |-> <<<<602>>, <<605>>, <<613>>, <<616>>, <<634>>, <<637, 642, 645>>>>],
      [isREPL |-> TRUE, units |-> <<<<647>>, <<650>>, <<652>>, <<656>>, <<665>>, <<674>>, <<682, 684>>, <<691, 697>>>>],
      [isREPL |-> TRUE, units |-> <<<<700>>, <<708>>, <<714>>, <<722>>, <<735>>>>],
      [isREPL |-> TRUE, units |-> <<<<737>>, <<741>>, <<743, 747, 749>>, <<751, 753>>, <<754, 756, 760, 761, 763, 765>>, <<767>>>>],
      [isREPL |-> TRUE, units |-> <<<<769, 771>>, <<773>>, <<777>>, <<779, 781, 783>>>>],
      [isREPL |-> TRUE, units |-> <<<<784, 787, 792, 797, 802, 808, 811>>, <<816, 821, 824>>, <<827>>>>],
      [isREPL |-> TRUE, units |-> <<<<829, 831, 834, 836, 840>>, <<842>>>>],
      [isREPL |-> FALSE, units |-> <<<<847, 849>>>>],
      [isREPL |-> FALSE, units |-> <<<<868, 871, 874, 877>>>>],
      [isREPL |-> FALSE, units |-> <<<<879, 881, 883, 885, 887, 889, 891, 893, 894, 895, 896, 897, 898, 899, 900, 901, 902, 903, 904, 905, 906, 907, 908, 910>>>>],
      [isREPL |-> TRUE, units |-> <<<<929>>, <<948>>, <<950>>>>],
      [isREPL |-> FALSE, units |-> <<<<963, 968>>>>],
      [isREPL |-> FALSE, units |-> <<<<993, 1003, 1008>>>>],
      [isREPL |-> TRUE, units |-> <<<<1022>>, <<1030>>>>],
      [isREPL |-> FALSE, units |-> <<<<1032, 1034, 1036, 1038, 1040, 1042, 1044, 1046, 1048, 1050, 1052, 1054, 1056, 1058>>>>],
      [isREPL |-> TRUE, units |-> <<<<1065>>, <<1069>>, <<1072, 1075>>>>]>>

\* The syntax trees of the sessions, as parser.c builds them; a node is
\* named by its index, 0 is the NULL node.
SyntaxTrees ==
    <<[k |-> "Literal", x |-> 0, y |-> 0, z |-> 0, xs |-> <<>>, name |-> "", params |-> <<>>, lit |-> "number", num |-> 1, line |-> 0],
      [k |-> "Var", x |-> 1, y |-> 0, z |-> 0, xs |-> <<>>, name |-> "a", params |-> <<>>, lit |-> "", num |-> 0, line |-> 0],
      [k |-> "Variable", x |-> 0, y |-> 0, z |-> 0, xs |-> <<>>, name |-> "x", params |-> <<>>, lit |-> "", num |-> 0, line |-> 0],
      [k |-> "Variable", x |-> 0, y |-> 0, z |-> 0, xs |-> <<>>, name |-> "a", params |-> <<>>, lit |-> "", num |-> 0, line |-> 0],
      [k |-> "Binary", x |-> 3, y |-> 4, z |-> 0, xs |-> <<>>, name |-> "+", params |-> <<>>, lit |-> "", num |-> 0, line |-> 0],
      [k |-> "Return", x |-> 5, y |-> 0, z |-> 0, xs |-> <<>>, name |-> "", params |-> <<>>, lit |-> "", num |-> 0, line |-> 0],
      [k |-> "Function", x |-> 0, y |-> 0, z |-> 0, xs |-> <<6>>, name |-> "f", params |-> <<"x">>, lit |-> "", num |-> 0, line |-> 0],
      [k |-> "Variable", x |-> 0, y |-> 0, z |-> 0, xs |-> <<>>, name |-> "f", params |-> <<>>, lit |-> "", num |-> 0, line |-> 0],
      [k |-> "Literal", x |-> 0, y |-> 0, z |-> 0, xs |-> <<>>, name |-> "", params |-> <<>>, lit |-> "number", num |-> 2, line |-> 0],
      [k |-> "Call", x |-> 8, y |-> 0, z |-> 0, xs |-> <<9>>, name |-> "", params |-> <<>>, lit |-> "", num |-> 0, line |-> 0],
      [k |-> "Print", x |-> 10, y |-> 0, z |-> 0, xs |-> <<>>, name |-> "", params |-> <<>>, lit |-> "", num |-> 0, line |-> 0],
      [k |-> "Variable", x |-> 0, y |-> 0, z |-> 0, xs |-> <<>>, name |-> "a", params |-> <<>>, lit |-> "", num |-> 0, line |-> 0],
      [k |-> "Literal", x |-> 0, y |-> 0, z |-> 0, xs |-> <<>>, name |-> "", params |-> <<>>, lit |-> "number", num |-> 1, line |-> 0],
      [k |-> "Assign", x |-> 13, y |-> 0, z |-> 0, xs |-> <<>>, name |-> "a", params |-> <<>>, lit |-> "", num |-> 0, line |-> 0],
      [k |-> "Grouping", x |-> 14, y |-> 0, z |-> 0, xs |-> <<>>, name |-> "", params |-> <<>>, lit |-> "", num |-> 0, line |-> 0],
      [k |-> "Var", x |-> 15, y |-> 0, z |-> 0, xs |-> <<>>, name |-> "a", params |-> <<>>, lit |-> "", num |-> 0, line |-> 0],
      [k |-> "Block", x |-> 0, y |-> 0, z |-> 0, xs |-> <<16>>, name |-> "", params |-> <<>>, lit |-> "", num |-> 0, line |-> 0],
      [k |-> "Literal", x |-> 0, y |-> 0, z |-> 0, xs |-> <<>>, name |-> "", params |-> <<>>, lit |-> "number", num |-> 0, line |-> 0],
      [k |-> "Var", x |-> 18, y |-> 0, z |-> 0, xs |-> <<>>, name |-> "i", params |-> <<>>, lit |-> "", num |-> 0, line |-> 0],
      [k |-> "Variable", x |-> 0, y |-> 0, z |-> 0, xs |-> <<>>, name |-> "i", params |-> <<>>, lit |-> "", num |-> 0, line |-> 1],
      [k |-> "Literal", x |-> 0, y |-> 0, z |-> 0, xs |-> <<>>, name |-> "", params |-> <<>>, lit |-> "number", num |-> 2, line |-> 1],
      [k |-> "Binary", x |-> 20, y |-> 21, z |-> 0, xs |-> <<>>, name |-> "<", params |-> <<>>, lit |-> "", num |-> 0, line |-> 1],
      [k |-> "Variable", x |-> 0, y |-> 0, z |-> 0, xs |-> <<>>, name |-> "i", params |-> <<>>, lit |-> "", num |-> 0, line |-> 1],
      [k |-> "Literal", x |-> 0, y |-> 0, z |-> 0, xs |-> <<>>, name |-> "", params |-> <<>>, lit |-> "number", num |-> 1, line |-> 1],
      [k |-> "Binary", x |-> 23, y |-> 24, z |-> 0, xs |-> <<>>, name |-> "==", params |-> <<>>, lit |-> "", num |-> 0, line |-> 1],
      [k |-> "Variable", x |-> 0, y |-> 0, z |-> 0, xs |-> <<>>, name |-> "i", params |-> <<>>, lit |-> "", num |-> 0, line |-> 1],
      [k |-> "Literal", x |-> 0, y |-> 0, z |-> 0, xs |-> <<>>, name |-> "", params |-> <<>>, lit |-> "number", num |-> 5, line |-> 1],
      [k |-> "Binary", x |-> 26, y |-> 27, z |-> 0, xs |-> <<>>, name |-> ">", params |-> <<>>, lit |-> "", num |-> 0, line |-> 1],
      [k |-> "Logical", x |-> 25, y |-> 28, z |-> 0, xs |-> <<>>, name |-> "or", params |-> <<>>, lit |-> "", num |-> 0, line |-> 1],
      [k |-> "Variable", x |-> 0, y |-> 0, z |-> 0, xs |-> <<>>, name |-> "i", params |-> <<>>, lit |-> "", num |-> 0, line |-> 1],
      [k |-> "Unary", x |-> 30, y |-> 0, z |-> 0, xs |-> <<>>, name |-> "-", params |-> <<>>, lit |-> "", num |-> 0, line |-> 1],
      [k |-> "Print", x |-> 31, y |-> 0, z |-> 0, xs |-> <<>>, name |-> "", params |-> <<>>, lit |-> "", num |-> 0, line |-> 1],
      [k |-> "Variable", x |-> 0, y |-> 0, z |-> 0, xs |-> <<>>, name |-> "i", params |-> <<>>, lit |-> "", num |-> 0, line |-> 1],
      [k |-> "Literal", x |-> 0, y |-> 0, z |-> 0, xs |-> <<>>, name |-> "", params |-> <<>>, lit |-> "number", num |-> 0, line |-> 1],
      [k |-> "Binary", x |-> 33, y |-> 34, z |-> 0, xs |-> <<>>, name |-> "==", params |-> <<>>, lit |-> "", num |-> 0, line |-> 1],
      [k |-> "Literal", x |-> 0, y |-> 0, z |-> 0, xs |-> <<>>, name |-> "", params |-> <<>>, lit |-> "true", num |-> 0, line |-> 1],
      [k |-> "Logical", x |-> 35, y |-> 36, z |-> 0, xs |-> <<>>, name |-> "and", params |-> <<>>, lit |-> "", num |-> 0, line |-> 1],
      [k |-> "Grouping", x |-> 37, y |-> 0, z |-> 0, xs |-> <<>>, name |-> "", params |-> <<>>, lit |-> "", num |-> 0, line |-> 1],
      [k |-> "Unary", x |-> 38, y |-> 0, z |-> 0, xs |-> <<>>, name |-> "!", params |-> <<>>, lit |-> "", num |-> 0, line |-> 1],
      [k |-> "Print", x |-> 39, y |-> 0, z |-> 0, xs |-> <<>>, name |-> "", params |-> <<>>, lit |-> "", num |-> 0, line |-> 1],
      [k |-> "If", x |-> 29, y |-> 32, z |-> 40, xs |-> <<>>, name |-> "", params |-> <<>>, lit |-> "", num |-> 0, line |-> 1],
      [k |-> "Variable", x |-> 0, y |-> 0, z |-> 0, xs |-> <<>>, name |-> "i", params |-> <<>>, lit |-> "", num |-> 0, line |-> 1],
      [k |-> "Variable", x |-> 0, y |-> 0, z |-> 0, xs |-> <<>>, name |-> "i", params |-> <<>>, lit |-> "", num |-> 0, line |-> 1],
      [k |-> "Literal", x |-> 0, y |-> 0, z |-> 0, xs |-> <<>>, name |-> "", params |-> <<>>, lit |-> "number", num |-> 1, line |-> 1],
      [k |-> "Binary", x |-> 43, y |-> 44, z |-> 0, xs |-> <<>>, name |-> "+", params |-> <<>>, lit |-> "", num |-> 0, line |-> 1],
      [k |-> "Assign", x |-> 45, y |-> 0, z |-> 0, xs |-> <<>>, name |-> "i", params |-> <<>>, lit |-> "", num |-> 0, line |-> 1],
      [k |-> "Expression", x |-> 46, y |-> 0, z |-> 0, xs |-> <<>>, name |-> "", params |-> <<>>, lit |-> "", num |-> 0, line |-> 1],
      [k |-> "Block", x |-> 0, y |-> 0, z |-> 0, xs |-> <<41, 47>>, name |-> "", params |-> <<>>, lit |-> "", num |-> 0, line |-> 1],
      [k |-> "While", x |-> 22, y |-> 48, z |-> 0, xs |-> <<>>, name |-> "", params |-> <<>>, lit |-> "", num |-> 0, line |-> 1],
      [k |-> "Literal", x |-> 0, y |-> 0, z |-> 0, xs |-> <<>>, name |-> "a", params |-> <<>>, lit |-> "string", num |-> 0, line |-> 2],
      [k |-> "Literal", x |-> 0, y |-> 0, z |-> 0, xs |-> <<>>, name |-> "b", params |-> <<>>, lit |-> "string", num |-> 0, line |-> 2],
      [k |-> "Binary", x |-> 50, y |-> 51, z |-> 0, xs |-> <<>>, name |-> "+", params |-> <<>>, lit |-> "", num |-> 0, line |-> 2],
      [k |-> "Print", x |-> 52, y |-> 0, z |-> 0, xs |-> <<>>, name |-> "", params |-> <<>>, lit |-> "", num |-> 0, line |-> 2],
      [k |-> "Variable", x |-> 0, y |-> 0, z |-> 0, xs |-> <<>>, name |-> "clock", params |-> <<>>, lit |-> "", num |-> 0, line |-> 2],
      [k |-> "Call", x |-> 54, y |-> 0, z |-> 0, xs |-> <<>>, name |-> "", params |-> <<>>, lit |-> "", num |-> 0, line |-> 2],
      [k |-> "Literal", x |-> 0, y |-> 0, z |-> 0, xs |-> <<>>, name |-> "", params |-> <<>>, lit |-> "nil", num |-> 0, line |-> 2],
      [k |-> "Binary", x |-> 55, y |-> 56, z |-> 0, xs |-> <<>>, name |-> "==", params |-> <<>>, lit |-> "", num |-> 0, line |-> 2],
      [k |-> "Print", x |-> 57, y |-> 0, z |-> 0, xs |-> <<>>, name |-> "", params |-> <<>>, lit |-> "", num |-> 0, line |-> 2],
      [k |-> "This", x |-> 0, y |-> 0, z |-> 0, xs |-> <<>>, name |-> "", params |-> <<>>, lit |-> "", num |-> 0, line |-> 0],
      [k |-> "Get", x |-> 59, y |-> 0, z |-> 0, xs |-> <<>>, name |-> "x", params |-> <<>>, lit |-> "", num |-> 0, line |-> 0],
      [k |-> "Variable", x |-> 0, y |-> 0, z |-> 0, xs |-> <<>>, name |-> "x", params |-> <<>>, lit |-> "", num |-> 0, line |-> 0],
      [k |-> "Set", x |-> 59, y |-> 61, z |-> 0, xs |-> <<>>, name |-> "x", params |-> <<>>, lit |-> "", num |-> 0, line |-> 0],
      [k |-> "Expression", x |-> 62, y |-> 0, z |-> 0, xs |-> <<>>, name |-> "", params |-> <<>>, lit |-> "", num |-> 0, line |-> 0],
      [k |-> "Function", x |-> 0, y |-> 0, z |-> 0, xs |-> <<63>>, name |-> "init", params |-> <<"x">>, lit |-> "", num |-> 0, line |-> 0],
      [k |-> "Class", x |-> 0, y |-> 0, z |-> 0, xs |-> <<64>>, name |-> "A", params |-> <<>>, lit |-> "", num |-> 0, line |-> 0],
      [k |-> "Variable", x |-> 0, y |-> 0, z |-> 0, xs |-> <<>>, name |-> "A", params |-> <<>>, lit |-> "", num |-> 0, line |-> 1],
      [k |-> "Literal", x |-> 0, y |-> 0, z |-> 0, xs |-> <<>>, name |-> "", params |-> <<>>, lit |-> "number", num |-> 1, line |-> 1],
      [k |-> "Call", x |-> 66, y |-> 0, z |-> 0, xs |-> <<67>>, name |-> "", params |-> <<>>, lit |-> "", num |-> 0, line |-> 1],
      [k |-> "Var", x |-> 68, y |-> 0, z |-> 0, xs |-> <<>>, name |-> "a", params |-> <<>>, lit |-> "", num |-> 0, line |-> 1],
      [k |-> "Variable", x |-> 0, y |-> 0, z |-> 0, xs |-> <<>>, name |-> "a", params |-> <<>>, lit |-> "", num |-> 0, line |-> 1],
      [k |-> "Get", x |-> 70, y |-> 0, z |-> 0, xs |-> <<>>, name |-> "x", params |-> <<>>, lit |-> "", num |-> 0, line |-> 1],
      [k |-> "Print", x |-> 71, y |-> 0, z |-> 0, xs |-> <<>>, name |-> "", params |-> <<>>, lit |-> "", num |-> 0, line |-> 1],
      [k |-> "Variable", x |-> 0, y |-> 0, z |-> 0, xs |-> <<>>, name |-> "a", params |-> <<>>, lit |-> "", num |-> 0, line |-> 1],
      [k |-> "Print", x |-> 73, y |-> 0, z |-> 0, xs |-> <<>>, name |-> "", params |-> <<>>, lit |-> "", num |-> 0, line |-> 1],
      [k |-> "Variable", x |-> 0, y |-> 0, z |-> 0, xs |-> <<>>, name |-> "A", params |-> <<>>, lit |-> "", num |-> 0, line |-> 1],
      [k |-> "Print", x |-> 75, y |-> 0, z |-> 0, xs |-> <<>>, name |-> "", params |-> <<>>, lit |-> "", num |-> 0, line |-> 1],
      [k |-> "Literal", x |-> 0, y |-> 0, z |-> 0, xs |-> <<>>, name |-> "", params |-> <<>>, lit |-> "number", num |-> 1, line |-> 0],
      [k |-> "Return", x |-> 77, y |-> 0, z |-> 0, xs |-> <<>>, name |-> "", params |-> <<>>, lit |-> "", num |-> 0, line |-> 0],
      [k |-> "Function", x |-> 0, y |-> 0, z |-> 0, xs |-> <<78>>, name |-> "get", params |-> <<>>, lit |-> "", num |-> 0, line |-> 0],
      [k |-> "Class", x |-> 0, y |-> 0, z |-> 0, xs |-> <<79>>, name |-> "A", params |-> <<>>, lit |-> "", num |-> 0, line |-> 0],
      [k |-> "Variable", x |-> 0, y |-> 0, z |-> 0, xs |-> <<>>, name |-> "A", params |-> <<>>, lit |-> "", num |-> 0, line |-> 1],
      [k |-> "Super", x |-> 0, y |-> 0, z |-> 0, xs |-> <<>>, name |-> "get", params |-> <<>>, lit |-> "", num |-> 0, line |-> 1],
      [k |-> "Call", x |-> 82, y |-> 0, z |-> 0, xs |-> <<>>, name |-> "", params |-> <<>>, lit |-> "", num |-> 0, line |-> 1],
      [k |-> "Literal", x |-> 0, y |-> 0, z |-> 0, xs |-> <<>>, name |-> "", params |-> <<>>, lit |-> "number", num |-> 1, line |-> 1],
      [k |-> "Binary", x |-> 83, y |-> 84, z |-> 0, xs |-> <<>>, name |-> "+", params |-> <<>>, lit |-> "", num |-> 0, line |-> 1],
      [k |-> "Return", x |-> 85, y |-> 0, z |-> 0, xs |-> <<>>, name |-> "", params |-> <<>>, lit |-> "", num |-> 0, line |-> 1],
      [k |-> "Function", x |-> 0, y |-> 0, z |-> 0, xs |-> <<86>>, name |-> "get", params |-> <<>>, lit |-> "", num |-> 0, line |-> 1],
      [k |-> "Class", x |-> 81, y |-> 0, z |-> 0, xs |-> <<87>>, name |-> "B", params |-> <<>>, lit |-> "", num |-> 0, line |-> 1],
      [k |-> "Variable", x |-> 0, y |-> 0, z |-> 0, xs |-> <<>>, name |-> "B", params |-> <<>>, lit |-> "", num |-> 0, line |-> 2],
      [k |-> "Call", x |-> 89, y |-> 0, z |-> 0, xs |-> <<>>, name |-> "", params |-> <<>>, lit |-> "", num |-> 0, line |-> 2],
      [k |-> "Get", x |-> 90, y |-> 0, z |-> 0, xs |-> <<>>, name |-> "get", params |-> <<>>, lit |-> "", num |-> 0, line |-> 2],
      [k |-> "Call", x |-> 91, y |-> 0, z |-> 0, xs |-> <<>>, name |-> "", params |-> <<>>, lit |-> "", num |-> 0, line |-> 2],
      [k |-> "Print", x |-> 92, y |-> 0, z |-> 0, xs |-> <<>>, name |-> "", params |-> <<>>, lit |-> "", num |-> 0, line |-> 2],
      [k |-> "This", x |-> 0, y |-> 0, z |-> 0, xs |-> <<>>, name |-> "", params |-> <<>>, lit |-> "", num |-> 0, line |-> 0],
      [k |-> "Return", x |-> 94, y |-> 0, z |-> 0, xs |-> <<>>, name |-> "", params |-> <<>>, lit |-> "", num |-> 0, line |-> 0],
      [k |-> "Function", x |-> 0, y |-> 0, z |-> 0, xs |-> <<95>>, name |-> "m", params |-> <<>>, lit |-> "", num |-> 0, line |-> 0],
      [k |-> "Class", x |-> 0, y |-> 0, z |-> 0, xs |-> <<96>>, name |-> "A", params |-> <<>>, lit |-> "", num |-> 0, line |-> 0],
      [k |-> "Variable", x |-> 0, y |-> 0, z |-> 0, xs |-> <<>>, name |-> "A", params |-> <<>>, lit |-> "", num |-> 0, line |-> 1],
      [k |-> "Call", x |-> 98, y |-> 0, z |-> 0, xs |-> <<>>, name |-> "", params |-> <<>>, lit |-> "", num |-> 0, line |-> 1],
      [k |-> "Var", x |-> 99, y |-> 0, z |-> 0, xs |-> <<>>, name |-> "a", params |-> <<>>, lit |-> "", num |-> 0, line |-> 1],
      [k |-> "Variable", x |-> 0, y |-> 0, z |-> 0, xs |-> <<>>, name |-> "a", params |-> <<>>, lit |-> "", num |-> 0, line |-> 1],
      [k |-> "Get", x |-> 101, y |-> 0, z |-> 0, xs |-> <<>>, name |-> "f", params |-> <<>>, lit |-> "", num |-> 0, line |-> 1],
      [k |-> "Variable", x |-> 0, y |-> 0, z |-> 0, xs |-> <<>>, name |-> "a", params |-> <<>>, lit |-> "", num |-> 0, line |-> 1],
      [k |-> "Get", x |-> 103, y |-> 0, z |-> 0, xs |-> <<>>, name |-> "m", params |-> <<>>, lit |-> "", num |-> 0, line |-> 1],
      [k |-> "Set", x |-> 101, y |-> 104, z |-> 0, xs |-> <<>>, name |-> "f", params |-> <<>>, lit |-> "", num |-> 0, line |-> 1],
      [k |-> "Expression", x |-> 105, y |-> 0, z |-> 0, xs |-> <<>>, name |-> "", params |-> <<>>, lit |-> "", num |-> 0, line |-> 1],
      [k |-> "Variable", x |-> 0, y |-> 0, z |-> 0, xs |-> <<>>, name |-> "a", params |-> <<>>, lit |-> "", num |-> 0, line |-> 1],
      [k |-> "Get", x |-> 107, y |-> 0, z |-> 0, xs |-> <<>>, name |-> "f", params |-> <<>>, lit |-> "", num |-> 0, line |-> 1],
      [k |-> "Call", x |-> 108, y |-> 0, z |-> 0, xs |-> <<>>, name |-> "", params |-> <<>>, lit |-> "", num |-> 0, line |-> 1],
      [k |-> "Print", x |-> 109, y |-> 0, z |-> 0, xs |-> <<>>, name |-> "", params |-> <<>>, lit |-> "", num |-> 0, line |-> 1],
      [k |-> "Variable", x |-> 0, y |-> 0, z |-> 0, xs |-> <<>>, name |-> "a", params |-> <<>>, lit |-> "", num |-> 0, line |-> 1],
      [k |-> "Get", x |-> 111, y |-> 0, z |-> 0, xs |-> <<>>, name |-> "f", params |-> <<>>, lit |-> "", num |-> 0, line |-> 1],
      [k |-> "Print", x |-> 112, y |-> 0, z |-> 0, xs |-> <<>>, name |-> "", params |-> <<>>, lit |-> "", num |-> 0, line |-> 1],
      [k |-> "Function", x |-> 0, y |-> 0, z |-> 0, xs |-> <<>>, name |-> "init", params |-> <<"x">>, lit |-> "", num |-> 0, line |-> 0],
      [k |-> "Class", x |-> 0, y |-> 0, z |-> 0, xs |-> <<114>>, name |-> "A", params |-> <<>>, lit |-> "", num |-> 0, line |-> 0],
      [k |-> "Variable", x |-> 0, y |-> 0, z |-> 0, xs |-> <<>>, name |-> "A", params |-> <<>>, lit |-> "", num |-> 0, line |-> 0],
      [k |-> "Class", x |-> 116, y |-> 0, z |-> 0, xs |-> <<>>, name |-> "B", params |-> <<>>, lit |-> "", num |-> 0, line |-> 0],
      [k |-> "Variable", x |-> 0, y |-> 0, z |-> 0, xs |-> <<>>, name |-> "B", params |-> <<>>, lit |-> "", num |-> 0, line |-> 1],
      [k |-> "Literal", x |-> 0, y |-> 0, z |-> 0, xs |-> <<>>, name |-> "", params |-> <<>>, lit |-> "number", num |-> 1, line |-> 1],
      [k |-> "Call", x |-> 118, y |-> 0, z |-> 0, xs |-> <<119>>, name |-> "", params |-> <<>>, lit |-> "", num |-> 0, line |-> 1],
      [k |-> "Expression", x |-> 120, y |-> 0, z |-> 0, xs |-> <<>>, name |-> "", params |-> <<>>, lit |-> "", num |-> 0, line |-> 1],
      [k |-> "Variable", x |-> 0, y |-> 0, z |-> 0, xs |-> <<>>, name |-> "B", params |-> <<>>, lit |-> "", num |-> 0, line |-> 2],
      [k |-> "Call", x |-> 122, y |-> 0, z |-> 0, xs |-> <<>>, name |-> "", params |-> <<>>, lit |-> "", num |-> 0, line |-> 2],
      [k |-> "Expression", x |-> 123, y |-> 0, z |-> 0, xs |-> <<>>, name |-> "", params |-> <<>>, lit |-> "", num |-> 0, line |-> 2],
      [k |-> "Literal", x |-> 0, y |-> 0, z |-> 0, xs |-> <<>>, name |-> "", params |-> <<>>, lit |-> "number", num |-> 1, line |-> 0],
      [k |-> "Literal", x |-> 0, y |-> 0, z |-> 0, xs |-> <<>>, name |-> "", params |-> <<>>, lit |-> "nil", num |-> 0, line |-> 0],
      [k |-> "Binary", x |-> 125, y |-> 126, z |-> 0, xs |-> <<>>, name |-> "+", params |-> <<>>, lit |-> "", num |-> 0, line |-> 0],
      [k |-> "Return", x |-> 127, y |-> 0, z |-> 0, xs |-> <<>>, name |-> "", params |-> <<>>, lit |-> "", num |-> 0, line |-> 0],
      [k |-> "Function", x |-> 0, y |-> 0, z |-> 0, xs |-> <<128>>, name |-> "f", params |-> <<>>, lit |-> "", num |-> 0, line |-> 0],
      [k |-> "Literal", x |-> 0, y |-> 0, z |-> 0, xs |-> <<>>, name |-> "", params |-> <<>>, lit |-> "number", num |-> 1, line |-> 1],
      [k |-> "Var", x |-> 130, y |-> 0, z |-> 0, xs |-> <<>>, name |-> "a", params |-> <<>>, lit |-> "", num |-> 0, line |-> 1],
      [k |-> "Literal", x |-> 0, y |-> 0, z |-> 0, xs |-> <<>>, name |-> "", params |-> <<>>, lit |-> "number", num |-> 2, line |-> 1],
      [k |-> "Variable", x |-> 0, y |-> 0, z |-> 0, xs |-> <<>>, name |-> "a", params |-> <<>>, lit |-> "", num |-> 0, line |-> 1],
      [k |-> "Variable", x |-> 0, y |-> 0, z |-> 0, xs |-> <<>>, name |-> "f", params |-> <<>>, lit |-> "", num |-> 0, line |-> 1],
      [k |-> "Call", x |-> 134, y |-> 0, z |-> 0, xs |-> <<>>, name |-> "", params |-> <<>>, lit |-> "", num |-> 0, line |-> 1],
      [k |-> "Binary", x |-> 133, y |-> 135, z |-> 0, xs |-> <<>>, name |-> "+", params |-> <<>>, lit |-> "", num |-> 0, line |-> 1],
      [k |-> "Grouping", x |-> 136, y |-> 0, z |-> 0, xs |-> <<>>, name |-> "", params |-> <<>>, lit |-> "", num |-> 0, line |-> 1],
      [k |-> "Binary", x |-> 132, y |-> 137, z |-> 0, xs |-> <<>>, name |-> "*", params |-> <<>>, lit |-> "", num |-> 0, line |-> 1],
      [k |-> "Print", x |-> 138, y |-> 0, z |-> 0, xs |-> <<>>, name |-> "", params |-> <<>>, lit |-> "", num |-> 0, line |-> 1],
      [k |-> "Block", x |-> 0, y |-> 0, z |-> 0, xs |-> <<139>>, name |-> "", params |-> <<>>, lit |-> "", num |-> 0, line |-> 1],
      [k |-> "Block", x |-> 0, y |-> 0, z |-> 0, xs |-> <<131, 140>>, name |-> "", params |-> <<>>, lit |-> "", num |-> 0, line |-> 1],
      [k |-> "Literal", x |-> 0, y |-> 0, z |-> 0, xs |-> <<>>, name |-> "", params |-> <<>>, lit |-> "number", num |-> 1, line |-> 2],
      [k |-> "Print", x |-> 142, y |-> 0, z |-> 0, xs |-> <<>>, name |-> "", params |-> <<>>, lit |-> "", num |-> 0, line |-> 2],
      [k |-> "Literal", x |-> 0, y |-> 0, z |-> 0, xs |-> <<>>, name |-> "", params |-> <<>>, lit |-> "number", num |-> 1, line |-> 3],
      [k |-> "Return", x |-> 144, y |-> 0, z |-> 0, xs |-> <<>>, name |-> "", params |-> <<>>, lit |-> "", num |-> 0, line |-> 3],
      [k |-> "Literal", x |-> 0, y |-> 0, z |-> 0, xs |-> <<>>, name |-> "", params |-> <<>>, lit |-> "number", num |-> 1, line |-> 4],
      [k |-> "Variable", x |-> 0, y |-> 0, z |-> 0, xs |-> <<>>, name |-> "quit", params |-> <<>>, lit |-> "", num |-> 0, line |-> 4],
      [k |-> "Call", x |-> 147, y |-> 0, z |-> 0, xs |-> <<>>, name |-> "", params |-> <<>>, lit |-> "", num |-> 0, line |-> 4],
      [k |-> "Binary", x |-> 146, y |-> 148, z |-> 0, xs |-> <<>>, name |-> "+", params |-> <<>>, lit |-> "", num |-> 0, line |-> 4],
      [k |-> "Print", x |-> 149, y |-> 0, z |-> 0, xs |-> <<>>, name |-> "", params |-> <<>>, lit |-> "", num |-> 0, line |-> 4],
      [k |-> "Block", x |-> 0, y |-> 0, z |-> 0, xs |-> <<150>>, name |-> "", params |-> <<>>, lit |-> "", num |-> 0, line |-> 4],
      [k |-> "Function", x |-> 0, y |-> 0, z |-> 0, xs |-> <<151>>, name |-> "q", params |-> <<>>, lit |-> "", num |-> 0, line |-> 4],
      [k |-> "Variable", x |-> 0, y |-> 0, z |-> 0, xs |-> <<>>, name |-> "q", params |-> <<>>, lit |-> "", num |-> 0, line |-> 5],
      [k |-> "Call", x |-> 153, y |-> 0, z |-> 0, xs |-> <<>>, name |-> "", params |-> <<>>, lit |-> "", num |-> 0, line |-> 5],
      [k |-> "Expression", x |-> 154, y |-> 0, z |-> 0, xs |-> <<>>, name |-> "", params |-> <<>>, lit |-> "", num |-> 0, line |-> 5],
      [k |-> "Literal", x |-> 0, y |-> 0, z |-> 0, xs |-> <<>>, name |-> "s", params |-> <<>>, lit |-> "string", num |-> 0, line |-> 0],
      [k |-> "Var", x |-> 156, y |-> 0, z |-> 0, xs |-> <<>>, name |-> "s", params |-> <<>>, lit |-> "", num |-> 0, line |-> 0],
      [k |-> "Variable", x |-> 0, y |-> 0, z |-> 0, xs |-> <<>>, name |-> "s", params |-> <<>>, lit |-> "", num |-> 0, line |-> 0],
      [k |-> "Get", x |-> 158, y |-> 0, z |-> 0, xs |-> <<>>, name |-> "x", params |-> <<>>, lit |-> "", num |-> 0, line |-> 0],
      [k |-> "Expression", x |-> 159, y |-> 0, z |-> 0, xs |-> <<>>, name |-> "", params |-> <<>>, lit |-> "", num |-> 0, line |-> 0],
      [k |-> "Variable", x |-> 0, y |-> 0, z |-> 0, xs |-> <<>>, name |-> "s", params |-> <<>>, lit |-> "", num |-> 0, line |-> 1],
      [k |-> "Class", x |-> 161, y |-> 0, z |-> 0, xs |-> <<>>, name |-> "C", params |-> <<>>, lit |-> "", num |-> 0, line |-> 1],
      [k |-> "Super", x |-> 0, y |-> 0, z |-> 0, xs |-> <<>>, name |-> "m", params |-> <<>>, lit |-> "", num |-> 0, line |-> 2],
      [k |-> "Return", x |-> 163, y |-> 0, z |-> 0, xs |-> <<>>, name |-> "", params |-> <<>>, lit |-> "", num |-> 0, line |-> 2],
      [k |-> "Function", x |-> 0, y |-> 0, z |-> 0, xs |-> <<164>>, name |-> "m", params |-> <<>>, lit |-> "", num |-> 0, line |-> 2],
      [k |-> "Class", x |-> 0, y |-> 0, z |-> 0, xs |-> <<165>>, name |-> "D", params |-> <<>>, lit |-> "", num |-> 0, line |-> 2],
      [k |-> "Class", x |-> 0, y |-> 0, z |-> 0, xs |-> <<>>, name |-> "E", params |-> <<>>, lit |-> "", num |-> 0, line |-> 3],
      [k |-> "Variable", x |-> 0, y |-> 0, z |-> 0, xs |-> <<>>, name |-> "E", params |-> <<>>, lit |-> "", num |-> 0, line |-> 3],
      [k |-> "Super", x |-> 0, y |-> 0, z |-> 0, xs |-> <<>>, name |-> "z", params |-> <<>>, lit |-> "", num |-> 0, line |-> 3],
      [k |-> "Return", x |-> 169, y |-> 0, z |-> 0, xs |-> <<>>, name |-> "", params |-> <<>>, lit |-> "", num |-> 0, line |-> 3],
      [k |-> "Function", x |-> 0, y |-> 0, z |-> 0, xs |-> <<170>>, name |-> "m", params |-> <<>>, lit |-> "", num |-> 0, line |-> 3],
      [k |-> "Class", x |-> 168, y |-> 0, z |-> 0, xs |-> <<171>>, name |-> "F", params |-> <<>>, lit |-> "", num |-> 0, line |-> 3],
      [k |-> "Variable", x |-> 0, y |-> 0, z |-> 0, xs |-> <<>>, name |-> "F", params |-> <<>>, lit |-> "", num |-> 0, line |-> 4],
      [k |-> "Call", x |-> 173, y |-> 0, z |-> 0, xs |-> <<>>, name |-> "", params |-> <<>>, lit |-> "", num |-> 0, line |-> 4],
      [k |-> "Get", x |-> 174, y |-> 0, z |-> 0, xs |-> <<>>, name |-> "m", params |-> <<>>, lit |-> "", num |-> 0, line |-> 4],
      [k |-> "Call", x |-> 175, y |-> 0, z |-> 0, xs |-> <<>>, name |-> "", params |-> <<>>, lit |-> "", num |-> 0, line |-> 4],
      [k |-> "Expression", x |-> 176, y |-> 0, z |-> 0, xs |-> <<>>, name |-> "", params |-> <<>>, lit |-> "", num |-> 0, line |-> 4],
      [k |-> "Variable", x |-> 0, y |-> 0, z |-> 0, xs |-> <<>>, name |-> "F", params |-> <<>>, lit |-> "", num |-> 0, line |-> 5],
      [k |-> "Call", x |-> 178, y |-> 0, z |-> 0, xs |-> <<>>, name |-> "", params |-> <<>>, lit |-> "", num |-> 0, line |-> 5],
      [k |-> "Get", x |-> 179, y |-> 0, z |-> 0, xs |-> <<>>, name |-> "y", params |-> <<>>, lit |-> "", num |-> 0, line |-> 5],
      [k |-> "Expression", x |-> 180, y |-> 0, z |-> 0, xs |-> <<>>, name |-> "", params |-> <<>>, lit |-> "", num |-> 0, line |-> 5],
      [k |-> "Variable", x |-> 0, y |-> 0, z |-> 0, xs |-> <<>>, name |-> "s", params |-> <<>>, lit |-> "", num |-> 0, line |-> 6],
      [k |-> "Call", x |-> 182, y |-> 0, z |-> 0, xs |-> <<>>, name |-> "", params |-> <<>>, lit |-> "", num |-> 0, line |-> 6],
      [k |-> "Expression", x |-> 183, y |-> 0, z |-> 0, xs |-> <<>>, name |-> "", params |-> <<>>, lit |-> "", num |-> 0, line |-> 6],
      [k |-> "Variable", x |-> 0, y |-> 0, z |-> 0, xs |-> <<>>, name |-> "s", params |-> <<>>, lit |-> "", num |-> 0, line |-> 7],
      [k |-> "Unary", x |-> 185, y |-> 0, z |-> 0, xs |-> <<>>, name |-> "-", params |-> <<>>, lit |-> "", num |-> 0, line |-> 7],
      [k |-> "Expression", x |-> 186, y |-> 0, z |-> 0, xs |-> <<>>, name |-> "", params |-> <<>>, lit |-> "", num |-> 0, line |-> 7],
      [k |-> "Literal", x |-> 0, y |-> 0, z |-> 0, xs |-> <<>>, name |-> "", params |-> <<>>, lit |-> "number", num |-> 1, line |-> 0],
      [k |-> "Return", x |-> 188, y |-> 0, z |-> 0, xs |-> <<>>, name |-> "", params |-> <<>>, lit |-> "", num |-> 0, line |-> 0],
      [k |-> "Variable", x |-> 0, y |-> 0, z |-> 0, xs |-> <<>>, name |-> "f", params |-> <<>>, lit |-> "", num |-> 0, line |-> 0],
      [k |-> "Call", x |-> 190, y |-> 0, z |-> 0, xs |-> <<>>, name |-> "", params |-> <<>>, lit |-> "", num |-> 0, line |-> 0],
      [k |-> "Expression", x |-> 191, y |-> 0, z |-> 0, xs |-> <<>>, name |-> "", params |-> <<>>, lit |-> "", num |-> 0, line |-> 0],
      [k |-> "Function", x |-> 0, y |-> 0, z |-> 0, xs |-> <<192>>, name |-> "f", params |-> <<>>, lit |-> "", num |-> 0, line |-> 0],
      [k |-> "Variable", x |-> 0, y |-> 0, z |-> 0, xs |-> <<>>, name |-> "f", params |-> <<>>, lit |-> "", num |-> 0, line |-> 1],
      [k |-> "Call", x |-> 194, y |-> 0, z |-> 0, xs |-> <<>>, name |-> "", params |-> <<>>, lit |-> "", num |-> 0, line |-> 1],
      [k |-> "Expression", x |-> 195, y |-> 0, z |-> 0, xs |-> <<>>, name |-> "", params |-> <<>>, lit |-> "", num |-> 0, line |-> 1],
      [k |-> "Variable", x |-> 0, y |-> 0, z |-> 0, xs |-> <<>>, name |-> "g", params |-> <<>>, lit |-> "", num |-> 0, line |-> 0],
      [k |-> "Call", x |-> 197, y |-> 0, z |-> 0, xs |-> <<>>, name |-> "", params |-> <<>>, lit |-> "", num |-> 0, line |-> 0],
      [k |-> "Expression", x |-> 198, y |-> 0, z |-> 0, xs |-> <<>>, name |-> "", params |-> <<>>, lit |-> "", num |-> 0, line |-> 0],
      [k |-> "Block", x |-> 0, y |-> 0, z |-> 0, xs |-> <<199>>, name |-> "", params |-> <<>>, lit |-> "", num |-> 0, line |-> 0],
      [k |-> "Function", x |-> 0, y |-> 0, z |-> 0, xs |-> <<200>>, name |-> "g", params |-> <<>>, lit |-> "", num |-> 0, line |-> 0],
      [k |-> "Variable", x |-> 0, y |-> 0, z |-> 0, xs |-> <<>>, name |-> "g", params |-> <<>>, lit |-> "", num |-> 0, line |-> 1],
      [k |-> "Call", x |-> 202, y |-> 0, z |-> 0, xs |-> <<>>, name |-> "", params |-> <<>>, lit |-> "", num |-> 0, line |-> 1],
      [k |-> "Expression", x |-> 203, y |-> 0, z |-> 0, xs |-> <<>>, name |-> "", params |-> <<>>, lit |-> "", num |-> 0, line |-> 1],
      [k |-> "Block", x |-> 0, y |-> 0, z |-> 0, xs |-> <<204>>, name |-> "", params |-> <<>>, lit |-> "", num |-> 0, line |-> 1],
      [k |-> "Variable", x |-> 0, y |-> 0, z |-> 0, xs |-> <<>>, name |-> "f", params |-> <<>>, lit |-> "", num |-> 0, line |-> 0],
      [k |-> "Call", x |-> 206, y |-> 0, z |-> 0, xs |-> <<>>, name |-> "", params |-> <<>>, lit |-> "", num |-> 0, line |-> 0],
      [k |-> "Expression", x |-> 207, y |-> 0, z |-> 0, xs |-> <<>>, name |-> "", params |-> <<>>, lit |-> "", num |-> 0, line |-> 0],
      [k |-> "Block", x |-> 0, y |-> 0, z |-> 0, xs |-> <<208>>, name |-> "", params |-> <<>>, lit |-> "", num |-> 0, line |-> 0],
      [k |-> "Function", x |-> 0, y |-> 0, z |-> 0, xs |-> <<209>>, name |-> "f", params |-> <<>>, lit |-> "", num |-> 0, line |-> 0],
      [k |-> "Variable", x |-> 0, y |-> 0, z |-> 0, xs |-> <<>>, name |-> "f", params |-> <<>>, lit |-> "", num |-> 0, line |-> 1],
      [k |-> "Call", x |-> 211, y |-> 0, z |-> 0, xs |-> <<>>, name |-> "", params |-> <<>>, lit |-> "", num |-> 0, line |-> 1],
      [k |-> "Expression", x |-> 212, y |-> 0, z |-> 0, xs |-> <<>>, name |-> "", params |-> <<>>, lit |-> "", num |-> 0, line |-> 1],
      [k |-> "Class", x |-> 0, y |-> 0, z |-> 0, xs |-> <<>>, name |-> "A", params |-> <<>>, lit |-> "", num |-> 0, line |-> 0],
      [k |-> "Variable", x |-> 0, y |-> 0, z |-> 0, xs |-> <<>>, name |-> "A", params |-> <<>>, lit |-> "", num |-> 0, line |-> 0],
      [k |-> "Class", x |-> 215, y |-> 0, z |-> 0, xs |-> <<>>, name |-> "B", params |-> <<>>, lit |-> "", num |-> 0, line |-> 0],
      [k |-> "Block", x |-> 0, y |-> 0, z |-> 0, xs |-> <<216>>, name |-> "", params |-> <<>>, lit |-> "", num |-> 0, line |-> 0],
      [k |-> "Block", x |-> 0, y |-> 0, z |-> 0, xs |-> <<217>>, name |-> "", params |-> <<>>, lit |-> "", num |-> 0, line |-> 0],
      [k |-> "Block", x |-> 0, y |-> 0, z |-> 0, xs |-> <<218>>, name |-> "", params |-> <<>>, lit |-> "", num |-> 0, line |-> 0],
      [k |-> "Block", x |-> 0, y |-> 0, z |-> 0, xs |-> <<219>>, name |-> "", params |-> <<>>, lit |-> "", num |-> 0, line |-> 0],
      [k |-> "Block", x |-> 0, y |-> 0, z |-> 0, xs |-> <<220>>, name |-> "", params |-> <<>>, lit |-> "", num |-> 0, line |-> 0],
      [k |-> "Block", x |-> 0, y |-> 0, z |-> 0, xs |-> <<221>>, name |-> "", params |-> <<>>, lit |-> "", num |-> 0, line |-> 0],
      [k |-> "Block", x |-> 0, y |-> 0, z |-> 0, xs |-> <<222>>, name |-> "", params |-> <<>>, lit |-> "", num |-> 0, line |-> 0],
      [k |-> "Function", x |-> 0, y |-> 0, z |-> 0, xs |-> <<>>, name |-> "m", params |-> <<>>, lit |-> "", num |-> 0, line |-> 0],
      [k |-> "Class", x |-> 0, y |-> 0, z |-> 0, xs |-> <<224>>, name |-> "A", params |-> <<>>, lit |-> "", num |-> 0, line |-> 0],
      [k |-> "Variable", x |-> 0, y |-> 0, z |-> 0, xs |-> <<>>, name |-> "A", params |-> <<>>, lit |-> "", num |-> 0, line |-> 0],
      [k |-> "Call", x |-> 226, y |-> 0, z |-> 0, xs |-> <<>>, name |-> "", params |-> <<>>, lit |-> "", num |-> 0, line |-> 0],
      [k |-> "Var", x |-> 227, y |-> 0, z |-> 0, xs |-> <<>>, name |-> "a", params |-> <<>>, lit |-> "", num |-> 0, line |-> 0],
      [k |-> "Variable", x |-> 0, y |-> 0, z |-> 0, xs |-> <<>>, name |-> "a", params |-> <<>>, lit |-> "", num |-> 0, line |-> 0],
      [k |-> "Get", x |-> 229, y |-> 0, z |-> 0, xs |-> <<>>, name |-> "m", params |-> <<>>, lit |-> "", num |-> 0, line |-> 0],
      [k |-> "Expression", x |-> 230, y |-> 0, z |-> 0, xs |-> <<>>, name |-> "", params |-> <<>>, lit |-> "", num |-> 0, line |-> 0],
      [k |-> "Block", x |-> 0, y |-> 0, z |-> 0, xs |-> <<231>>, name |-> "", params |-> <<>>, lit |-> "", num |-> 0, line |-> 0],
      [k |-> "Block", x |-> 0, y |-> 0, z |-> 0, xs |-> <<232>>, name |-> "", params |-> <<>>, lit |-> "", num |-> 0, line |-> 0],
      [k |-> "Block", x |-> 0, y |-> 0, z |-> 0, xs |-> <<233>>, name |-> "", params |-> <<>>, lit |-> "", num |-> 0, line |-> 0],
      [k |-> "Block", x |-> 0, y |-> 0, z |-> 0, xs |-> <<234>>, name |-> "", params |-> <<>>, lit |-> "", num |-> 0, line |-> 0],
      [k |-> "Block", x |-> 0, y |-> 0, z |-> 0, xs |-> <<235>>, name |-> "", params |-> <<>>, lit |-> "", num |-> 0, line |-> 0],
      [k |-> "Block", x |-> 0, y |-> 0, z |-> 0, xs |-> <<236>>, name |-> "", params |-> <<>>, lit |-> "", num |-> 0, line |-> 0],
      [k |-> "Block", x |-> 0, y |-> 0, z |-> 0, xs |-> <<237>>, name |-> "", params |-> <<>>, lit |-> "", num |-> 0, line |-> 0],
      [k |-> "Function", x |-> 0, y |-> 0, z |-> 0, xs |-> <<>>, name |-> "init", params |-> <<>>, lit |-> "", num |-> 0, line |-> 0],
      [k |-> "Class", x |-> 0, y |-> 0, z |-> 0, xs |-> <<239>>, name |-> "A", params |-> <<>>, lit |-> "", num |-> 0, line |-> 0],
      [k |-> "Variable", x |-> 0, y |-> 0, z |-> 0, xs |-> <<>>, name |-> "A", params |-> <<>>, lit |-> "", num |-> 0, line |-> 0],
      [k |-> "Call", x |-> 241, y |-> 0, z |-> 0, xs |-> <<>>, name |-> "", params |-> <<>>, lit |-> "", num |-> 0, line |-> 0],
      [k |-> "Expression", x |-> 242, y |-> 0, z |-> 0, xs |-> <<>>, name |-> "", params |-> <<>>, lit |-> "", num |-> 0, line |-> 0],
      [k |-> "Block", x |-> 0, y |-> 0, z |-> 0, xs |-> <<243>>, name |-> "", params |-> <<>>, lit |-> "", num |-> 0, line |-> 0],
      [k |-> "Block", x |-> 0, y |-> 0, z |-> 0, xs |-> <<244>>, name |-> "", params |-> <<>>, lit |-> "", num |-> 0, line |-> 0],
      [k |-> "Block", x |-> 0, y |-> 0, z |-> 0, xs |-> <<245>>, name |-> "", params |-> <<>>, lit |-> "", num |-> 0, line |-> 0],
      [k |-> "Block", x |-> 0, y |-> 0, z |-> 0, xs |-> <<246>>, name |-> "", params |-> <<>>, lit |-> "", num |-> 0, line |-> 0],
      [k |-> "Block", x |-> 0, y |-> 0, z |-> 0, xs |-> <<247>>, name |-> "", params |-> <<>>, lit |-> "", num |-> 0, line |-> 0],
      [k |-> "Block", x |-> 0, y |-> 0, z |-> 0, xs |-> <<248>>, name |-> "", params |-> <<>>, lit |-> "", num |-> 0, line |-> 0],
      [k |-> "Block", x |-> 0, y |-> 0, z |-> 0, xs |-> <<249>>, name |-> "", params |-> <<>>, lit |-> "", num |-> 0, line |-> 0],
      [k |-> "Variable", x |-> 0, y |-> 0, z |-> 0, xs |-> <<>>, name |-> "help", params |-> <<>>, lit |-> "", num |-> 0, line |-> 0],
      [k |-> "Call", x |-> 251, y |-> 0, z |-> 0, xs |-> <<>>, name |-> "", params |-> <<>>, lit |-> "", num |-> 0, line |-> 0],
      [k |-> "Print", x |-> 252, y |-> 0, z |-> 0, xs |-> <<>>, name |-> "", params |-> <<>>, lit |-> "", num |-> 0, line |-> 0],
      [k |-> "Variable", x |-> 0, y |-> 0, z |-> 0, xs |-> <<>>, name |-> "help", params |-> <<>>, lit |-> "", num |-> 0, line |-> 0],
      [k |-> "Call", x |-> 254, y |-> 0, z |-> 0, xs |-> <<>>, name |-> "", params |-> <<>>, lit |-> "", num |-> 0, line |-> 0],
      [k |-> "Unary", x |-> 255, y |-> 0, z |-> 0, xs |-> <<>>, name |-> "!", params |-> <<>>, lit |-> "", num |-> 0, line |-> 0],
      [k |-> "Literal", x |-> 0, y |-> 0, z |-> 0, xs |-> <<>>, name |-> "", params |-> <<>>, lit |-> "number", num |-> 1, line |-> 0],
      [k |-> "Print", x |-> 257, y |-> 0, z |-> 0, xs |-> <<>>, name |-> "", params |-> <<>>, lit |-> "", num |-> 0, line |-> 0],
      [k |-> "If", x |-> 256, y |-> 258, z |-> 0, xs |-> <<>>, name |-> "", params |-> <<>>, lit |-> "", num |-> 0, line |-> 0],
      [k |-> "Variable", x |-> 0, y |-> 0, z |-> 0, xs |-> <<>>, name |-> "help", params |-> <<>>, lit |-> "", num |-> 0, line |-> 0],
      [k |-> "Call", x |-> 260, y |-> 0, z |-> 0, xs |-> <<>>, name |-> "", params |-> <<>>, lit |-> "", num |-> 0, line |-> 0],
      [k |-> "Literal", x |-> 0, y |-> 0, z |-> 0, xs |-> <<>>, name |-> "", params |-> <<>>, lit |-> "nil", num |-> 0, line |-> 0],
      [k |-> "Binary", x |-> 261, y |-> 262, z |-> 0, xs |-> <<>>, name |-> "==", params |-> <<>>, lit |-> "", num |-> 0, line |-> 0],
      [k |-> "Print", x |-> 263, y |-> 0, z |-> 0, xs |-> <<>>, name |-> "", params |-> <<>>, lit |-> "", num |-> 0, line |-> 0],
      [k |-> "Variable", x |-> 0, y |-> 0, z |-> 0, xs |-> <<>>, name |-> "help", params |-> <<>>, lit |-> "", num |-> 0, line |-> 0],
      [k |-> "Call", x |-> 265, y |-> 0, z |-> 0, xs |-> <<>>, name |-> "", params |-> <<>>, lit |-> "", num |-> 0, line |-> 0],
      [k |-> "Var", x |-> 266, y |-> 0, z |-> 0, xs |-> <<>>, name |-> "x", params |-> <<>>, lit |-> "", num |-> 0, line |-> 0],
      [k |-> "Variable", x |-> 0, y |-> 0, z |-> 0, xs |-> <<>>, name |-> "x", params |-> <<>>, lit |-> "", num |-> 0, line |-> 0],
      [k |-> "Print", x |-> 268, y |-> 0, z |-> 0, xs |-> <<>>, name |-> "", params |-> <<>>, lit |-> "", num |-> 0, line |-> 0],
      [k |-> "Literal", x |-> 0, y |-> 0, z |-> 0, xs |-> <<>>, name |-> "", params |-> <<>>, lit |-> "number", num |-> 1, line |-> 0],
      [k |-> "Var", x |-> 270, y |-> 0, z |-> 0, xs |-> <<>>, name |-> "x", params |-> <<>>, lit |-> "", num |-> 0, line |-> 0],
      [k |-> "Variable", x |-> 0, y |-> 0, z |-> 0, xs |-> <<>>, name |-> "x", params |-> <<>>, lit |-> "", num |-> 0, line |-> 0],
      [k |-> "Variable", x |-> 0, y |-> 0, z |-> 0, xs |-> <<>>, name |-> "help", params |-> <<>>, lit |-> "", num |-> 0, line |-> 0],
      [k |-> "Call", x |-> 273, y |-> 0, z |-> 0, xs |-> <<>>, name |-> "", params |-> <<>>, lit |-> "", num |-> 0, line |-> 0],
      [k |-> "Assign", x |-> 274, y |-> 0, z |-> 0, xs |-> <<>>, name |-> "x", params |-> <<>>, lit |-> "", num |-> 0, line |-> 0],
      [k |-> "Expression", x |-> 275, y |-> 0, z |-> 0, xs |-> <<>>, name |-> "", params |-> <<>>, lit |-> "", num |-> 0, line |-> 0],
      [k |-> "Class", x |-> 0, y |-> 0, z |-> 0, xs |-> <<>>, name |-> "A", params |-> <<>>, lit |-> "", num |-> 0, line |-> 0],
      [k |-> "Variable", x |-> 0, y |-> 0, z |-> 0, xs |-> <<>>, name |-> "A", params |-> <<>>, lit |-> "", num |-> 0, line |-> 0],
      [k |-> "Call", x |-> 278, y |-> 0, z |-> 0, xs |-> <<>>, name |-> "", params |-> <<>>, lit |-> "", num |-> 0, line |-> 0],
      [k |-> "Var", x |-> 279, y |-> 0, z |-> 0, xs |-> <<>>, name |-> "a", params |-> <<>>, lit |-> "", num |-> 0, line |-> 0],
      [k |-> "Variable", x |-> 0, y |-> 0, z |-> 0, xs |-> <<>>, name |-> "a", params |-> <<>>, lit |-> "", num |-> 0, line |-> 0],
      [k |-> "Get", x |-> 281, y |-> 0, z |-> 0, xs |-> <<>>, name |-> "f", params |-> <<>>, lit |-> "", num |-> 0, line |-> 0],
      [k |-> "Variable", x |-> 0, y |-> 0, z |-> 0, xs |-> <<>>, name |-> "help", params |-> <<>>, lit |-> "", num |-> 0, line |-> 0],
      [k |-> "Call", x |-> 283, y |-> 0, z |-> 0, xs |-> <<>>, name |-> "", params |-> <<>>, lit |-> "", num |-> 0, line |-> 0],
      [k |-> "Set", x |-> 281, y |-> 284, z |-> 0, xs |-> <<>>, name |-> "f", params |-> <<>>, lit |-> "", num |-> 0, line |-> 0],
      [k |-> "Expression", x |-> 285, y |-> 0, z |-> 0, xs |-> <<>>, name |-> "", params |-> <<>>, lit |-> "", num |-> 0, line |-> 0],
      [k |-> "Variable", x |-> 0, y |-> 0, z |-> 0, xs |-> <<>>, name |-> "a", params |-> <<>>, lit |-> "", num |-> 0, line |-> 0],
      [k |-> "Get", x |-> 287, y |-> 0, z |-> 0, xs |-> <<>>, name |-> "f", params |-> <<>>, lit |-> "", num |-> 0, line |-> 0],
      [k |-> "Print", x |-> 288, y |-> 0, z |-> 0, xs |-> <<>>, name |-> "", params |-> <<>>, lit |-> "", num |-> 0, line |-> 0],
      [k |-> "Variable", x |-> 0, y |-> 0, z |-> 0, xs |-> <<>>, name |-> "help", params |-> <<>>, lit |-> "", num |-> 0, line |-> 0],
      [k |-> "Call", x |-> 290, y |-> 0, z |-> 0, xs |-> <<>>, name |-> "", params |-> <<>>, lit |-> "", num |-> 0, line |-> 0],
      [k |-> "Return", x |-> 291, y |-> 0, z |-> 0, xs |-> <<>>, name |-> "", params |-> <<>>, lit |-> "", num |-> 0, line |-> 0],
      [k |-> "Function", x |-> 0, y |-> 0, z |-> 0, xs |-> <<292>>, name |-> "f", params |-> <<>>, lit |-> "", num |-> 0, line |-> 0],
      [k |-> "Variable", x |-> 0, y |-> 0, z |-> 0, xs |-> <<>>, name |-> "f", params |-> <<>>, lit |-> "", num |-> 0, line |-> 0],
      [k |-> "Call", x |-> 294, y |-> 0, z |-> 0, xs |-> <<>>, name |-> "", params |-> <<>>, lit |-> "", num |-> 0, line |-> 0],
      [k |-> "Print", x |-> 295, y |-> 0, z |-> 0, xs |-> <<>>, name |-> "", params |-> <<>>, lit |-> "", num |-> 0, line |-> 0],
      [k |-> "Literal", x |-> 0, y |-> 0, z |-> 0, xs |-> <<>>, name |-> "", params |-> <<>>, lit |-> "number", num |-> 1, line |-> 0],
      [k |-> "Expression", x |-> 297, y |-> 0, z |-> 0, xs |-> <<>>, name |-> "", params |-> <<>>, lit |-> "", num |-> 0, line |-> 0],
      [k |-> "Block", x |-> 0, y |-> 0, z |-> 0, xs |-> <<>>, name |-> "", params |-> <<>>, lit |-> "", num |-> 0, line |-> 0],
      [k |-> "Block", x |-> 0, y |-> 0, z |-> 0, xs |-> <<298, 299>>, name |-> "", params |-> <<>>, lit |-> "", num |-> 0, line |-> 0],
      [k |-> "Block", x |-> 0, y |-> 0, z |-> 0, xs |-> <<300>>, name |-> "", params |-> <<>>, lit |-> "", num |-> 0, line |-> 0],
      [k |-> "Block", x |-> 0, y |-> 0, z |-> 0, xs |-> <<301>>, name |-> "", params |-> <<>>, lit |-> "", num |-> 0, line |-> 0],
      [k |-> "Block", x |-> 0, y |-> 0, z |-> 0, xs |-> <<302>>, name |-> "", params |-> <<>>, lit |-> "", num |-> 0, line |-> 0],
      [k |-> "Block", x |-> 0, y |-> 0, z |-> 0, xs |-> <<303>>, name |-> "", params |-> <<>>, lit |-> "", num |-> 0, line |-> 0],
      [k |-> "Block", x |-> 0, y |-> 0, z |-> 0, xs |-> <<304>>, name |-> "", params |-> <<>>, lit |-> "", num |-> 0, line |-> 0],
      [k |-> "Block", x |-> 0, y |-> 0, z |-> 0, xs |-> <<305>>, name |-> "", params |-> <<>>, lit |-> "", num |-> 0, line |-> 0],
      [k |-> "This", x |-> 0, y |-> 0, z |-> 0, xs |-> <<>>, name |-> "", params |-> <<>>, lit |-> "", num |-> 0, line |-> 0],
      [k |-> "Get", x |-> 307, y |-> 0, z |-> 0, xs |-> <<>>, name |-> "x", params |-> <<>>, lit |-> "", num |-> 0, line |-> 0],
      [k |-> "Variable", x |-> 0, y |-> 0, z |-> 0, xs |-> <<>>, name |-> "x", params |-> <<>>, lit |-> "", num |-> 0, line |-> 0],
      [k |-> "Set", x |-> 307, y |-> 309, z |-> 0, xs |-> <<>>, name |-> "x", params |-> <<>>, lit |-> "", num |-> 0, line |-> 0],
      [k |-> "Expression", x |-> 310, y |-> 0, z |-> 0, xs |-> <<>>, name |-> "", params |-> <<>>, lit |-> "", num |-> 0, line |-> 0],
      [k |-> "Variable", x |-> 0, y |-> 0, z |-> 0, xs |-> <<>>, name |-> "x", params |-> <<>>, lit |-> "", num |-> 0, line |-> 0],
      [k |-> "Literal", x |-> 0, y |-> 0, z |-> 0, xs |-> <<>>, name |-> "", params |-> <<>>, lit |-> "number", num |-> 3, line |-> 0],
      [k |-> "Binary", x |-> 312, y |-> 313, z |-> 0, xs |-> <<>>, name |-> "==", params |-> <<>>, lit |-> "", num |-> 0, line |-> 0],
      [k |-> "Return", x |-> 0, y |-> 0, z |-> 0, xs |-> <<>>, name |-> "", params |-> <<>>, lit |-> "", num |-> 0, line |-> 0],
      [k |-> "If", x |-> 314, y |-> 315, z |-> 0, xs |-> <<>>, name |-> "", params |-> <<>>, lit |-> "", num |-> 0, line |-> 0],
      [k |-> "This", x |-> 0, y |-> 0, z |-> 0, xs |-> <<>>, name |-> "", params |-> <<>>, lit |-> "", num |-> 0, line |-> 0],
      [k |-> "Get", x |-> 317, y |-> 0, z |-> 0, xs |-> <<>>, name |-> "y", params |-> <<>>, lit |-> "", num |-> 0, line |-> 0],
      [k |-> "Variable", x |-> 0, y |-> 0, z |-> 0, xs |-> <<>>, name |-> "x", params |-> <<>>, lit |-> "", num |-> 0, line |-> 0],
      [k |-> "Set", x |-> 317, y |-> 319, z |-> 0, xs |-> <<>>, name |-> "y", params |-> <<>>, lit |-> "", num |-> 0, line |-> 0],
      [k |-> "Expression", x |-> 320, y |-> 0, z |-> 0, xs |-> <<>>, name |-> "", params |-> <<>>, lit |-> "", num |-> 0, line |-> 0],
      [k |-> "Function", x |-> 0, y |-> 0, z |-> 0, xs |-> <<311, 316, 321>>, name |-> "init", params |-> <<"x">>, lit |-> "", num |-> 0, line |-> 0],
      [k |-> "Class", x |-> 0, y |-> 0, z |-> 0, xs |-> <<322>>, name |-> "A", params |-> <<>>, lit |-> "", num |-> 0, line |-> 0],
      [k |-> "Variable", x |-> 0, y |-> 0, z |-> 0, xs |-> <<>>, name |-> "A", params |-> <<>>, lit |-> "", num |-> 0, line |-> 1],
      [k |-> "Literal", x |-> 0, y |-> 0, z |-> 0, xs |-> <<>>, name |-> "", params |-> <<>>, lit |-> "number", num |-> 3, line |-> 1],
      [k |-> "Call", x |-> 324, y |-> 0, z |-> 0, xs |-> <<325>>, name |-> "", params |-> <<>>, lit |-> "", num |-> 0, line |-> 1],
      [k |-> "Var", x |-> 326, y |-> 0, z |-> 0, xs |-> <<>>, name |-> "a", params |-> <<>>, lit |-> "", num |-> 0, line |-> 1],
      [k |-> "Variable", x |-> 0, y |-> 0, z |-> 0, xs |-> <<>>, name |-> "a", params |-> <<>>, lit |-> "", num |-> 0, line |-> 1],
      [k |-> "Get", x |-> 328, y |-> 0, z |-> 0, xs |-> <<>>, name |-> "init", params |-> <<>>, lit |-> "", num |-> 0, line |-> 1],
      [k |-> "Literal", x |-> 0, y |-> 0, z |-> 0, xs |-> <<>>, name |-> "", params |-> <<>>, lit |-> "number", num |-> 2, line |-> 1],
      [k |-> "Call", x |-> 329, y |-> 0, z |-> 0, xs |-> <<330>>, name |-> "", params |-> <<>>, lit |-> "", num |-> 0, line |-> 1],
      [k |-> "Var", x |-> 331, y |-> 0, z |-> 0, xs |-> <<>>, name |-> "b", params |-> <<>>, lit |-> "", num |-> 0, line |-> 1],
      [k |-> "Variable", x |-> 0, y |-> 0, z |-> 0, xs |-> <<>>, name |-> "b", params |-> <<>>, lit |-> "", num |-> 0, line |-> 1],
      [k |-> "Get", x |-> 333, y |-> 0, z |-> 0, xs |-> <<>>, name |-> "x", params |-> <<>>, lit |-> "", num |-> 0, line |-> 1],
      [k |-> "Literal", x |-> 0, y |-> 0, z |-> 0, xs |-> <<>>, name |-> "", params |-> <<>>, lit |-> "number", num |-> 5, line |-> 1],
      [k |-> "Set", x |-> 333, y |-> 335, z |-> 0, xs |-> <<>>, name |-> "x", params |-> <<>>, lit |-> "", num |-> 0, line |-> 1],
      [k |-> "Expression", x |-> 336, y |-> 0, z |-> 0, xs |-> <<>>, name |-> "", params |-> <<>>, lit |-> "", num |-> 0, line |-> 1],
      [k |-> "Variable", x |-> 0, y |-> 0, z |-> 0, xs |-> <<>>, name |-> "a", params |-> <<>>, lit |-> "", num |-> 0, line |-> 1],
      [k |-> "Get", x |-> 338, y |-> 0, z |-> 0, xs |-> <<>>, name |-> "x", params |-> <<>>, lit |-> "", num |-> 0, line |-> 1],
      [k |-> "Print", x |-> 339, y |-> 0, z |-> 0, xs |-> <<>>, name |-> "", params |-> <<>>, lit |-> "", num |-> 0, line |-> 1],
      [k |-> "Variable", x |-> 0, y |-> 0, z |-> 0, xs |-> <<>>, name |-> "a", params |-> <<>>, lit |-> "", num |-> 0, line |-> 1],
      [k |-> "Get", x |-> 341, y |-> 0, z |-> 0, xs |-> <<>>, name |-> "y", params |-> <<>>, lit |-> "", num |-> 0, line |-> 1],
      [k |-> "Print", x |-> 342, y |-> 0, z |-> 0, xs |-> <<>>, name |-> "", params |-> <<>>, lit |-> "", num |-> 0, line |-> 1],
      [k |-> "Variable", x |-> 0, y |-> 0, z |-> 0, xs |-> <<>>, name |-> "x", params |-> <<>>, lit |-> "", num |-> 0, line |-> 0],
      [k |-> "Literal", x |-> 0, y |-> 0, z |-> 0, xs |-> <<>>, name |-> "", params |-> <<>>, lit |-> "number", num |-> 3, line |-> 0],
      [k |-> "Binary", x |-> 344, y |-> 345, z |-> 0, xs |-> <<>>, name |-> "==", params |-> <<>>, lit |-> "", num |-> 0, line |-> 0],
      [k |-> "Return", x |-> 0, y |-> 0, z |-> 0, xs |-> <<>>, name |-> "", params |-> <<>>, lit |-> "", num |-> 0, line |-> 0],
      [k |-> "If", x |-> 346, y |-> 347, z |-> 0, xs |-> <<>>, name |-> "", params |-> <<>>, lit |-> "", num |-> 0, line |-> 0],
      [k |-> "This", x |-> 0, y |-> 0, z |-> 0, xs |-> <<>>, name |-> "", params |-> <<>>, lit |-> "", num |-> 0, line |-> 0],
      [k |-> "Get", x |-> 349, y |-> 0, z |-> 0, xs |-> <<>>, name |-> "y", params |-> <<>>, lit |-> "", num |-> 0, line |-> 0],
      [k |-> "Variable", x |-> 0, y |-> 0, z |-> 0, xs |-> <<>>, name |-> "x", params |-> <<>>, lit |-> "", num |-> 0, line |-> 0],
      [k |-> "Set", x |-> 349, y |-> 351, z |-> 0, xs |-> <<>>, name |-> "y", params |-> <<>>, lit |-> "", num |-> 0, line |-> 0],
      [k |-> "Expression", x |-> 352, y |-> 0, z |-> 0, xs |-> <<>>, name |-> "", params |-> <<>>, lit |-> "", num |-> 0, line |-> 0],
      [k |-> "Function", x |-> 0, y |-> 0, z |-> 0, xs |-> <<348, 353>>, name |-> "init", params |-> <<"x">>, lit |-> "", num |-> 0, line |-> 0],
      [k |-> "Class", x |-> 0, y |-> 0, z |-> 0, xs |-> <<354>>, name |-> "A", params |-> <<>>, lit |-> "", num |-> 0, line |-> 0],
      [k |-> "Return", x |-> 0, y |-> 0, z |-> 0, xs |-> <<>>, name |-> "", params |-> <<>>, lit |-> "", num |-> 0, line |-> 1],
      [k |-> "Function", x |-> 0, y |-> 0, z |-> 0, xs |-> <<356>>, name |-> "g", params |-> <<>>, lit |-> "", num |-> 0, line |-> 1],
      [k |-> "Variable", x |-> 0, y |-> 0, z |-> 0, xs |-> <<>>, name |-> "A", params |-> <<>>, lit |-> "", num |-> 0, line |-> 2],
      [k |-> "Literal", x |-> 0, y |-> 0, z |-> 0, xs |-> <<>>, name |-> "", params |-> <<>>, lit |-> "number", num |-> 2, line |-> 2],
      [k |-> "Call", x |-> 358, y |-> 0, z |-> 0, xs |-> <<359>>, name |-> "", params |-> <<>>, lit |-> "", num |-> 0, line |-> 2],
      [k |-> "Var", x |-> 360, y |-> 0, z |-> 0, xs |-> <<>>, name |-> "a", params |-> <<>>, lit |-> "", num |-> 0, line |-> 2],
      [k |-> "Variable", x |-> 0, y |-> 0, z |-> 0, xs |-> <<>>, name |-> "a", params |-> <<>>, lit |-> "", num |-> 0, line |-> 2],
      [k |-> "Get", x |-> 362, y |-> 0, z |-> 0, xs |-> <<>>, name |-> "init", params |-> <<>>, lit |-> "", num |-> 0, line |-> 2],
      [k |-> "Literal", x |-> 0, y |-> 0, z |-> 0, xs |-> <<>>, name |-> "", params |-> <<>>, lit |-> "number", num |-> 3, line |-> 2],
      [k |-> "Call", x |-> 363, y |-> 0, z |-> 0, xs |-> <<364>>, name |-> "", params |-> <<>>, lit |-> "", num |-> 0, line |-> 2],
      [k |-> "Get", x |-> 365, y |-> 0, z |-> 0, xs |-> <<>>, name |-> "y", params |-> <<>>, lit |-> "", num |-> 0, line |-> 2],
      [k |-> "Print", x |-> 366, y |-> 0, z |-> 0, xs |-> <<>>, name |-> "", params |-> <<>>, lit |-> "", num |-> 0, line |-> 2],
      [k |-> "Variable", x |-> 0, y |-> 0, z |-> 0, xs |-> <<>>, name |-> "g", params |-> <<>>, lit |-> "", num |-> 0, line |-> 2],
      [k |-> "Call", x |-> 368, y |-> 0, z |-> 0, xs |-> <<>>, name |-> "", params |-> <<>>, lit |-> "", num |-> 0, line |-> 2],
      [k |-> "Print", x |-> 369, y |-> 0, z |-> 0, xs |-> <<>>, name |-> "", params |-> <<>>, lit |-> "", num |-> 0, line |-> 2],
      [k |-> "Literal", x |-> 0, y |-> 0, z |-> 0, xs |-> <<>>, name |-> "", params |-> <<>>, lit |-> "number", num |-> 1, line |-> 0],
      [k |-> "Return", x |-> 371, y |-> 0, z |-> 0, xs |-> <<>>, name |-> "", params |-> <<>>, lit |-> "", num |-> 0, line |-> 0],
      [k |-> "Function", x |-> 0, y |-> 0, z |-> 0, xs |-> <<372>>, name |-> "m", params |-> <<>>, lit |-> "", num |-> 0, line |-> 0],
      [k |-> "Literal", x |-> 0, y |-> 0, z |-> 0, xs |-> <<>>, name |-> "", params |-> <<>>, lit |-> "number", num |-> 2, line |-> 0],
      [k |-> "Return", x |-> 374, y |-> 0, z |-> 0, xs |-> <<>>, name |-> "", params |-> <<>>, lit |-> "", num |-> 0, line |-> 0],
      [k |-> "Function", x |-> 0, y |-> 0, z |-> 0, xs |-> <<375>>, name |-> "n", params |-> <<>>, lit |-> "", num |-> 0, line |-> 0],
      [k |-> "Class", x |-> 0, y |-> 0, z |-> 0, xs |-> <<376, 373>>, name |-> "A", params |-> <<>>, lit |-> "", num |-> 0, line |-> 0],
      [k |-> "Variable", x |-> 0, y |-> 0, z |-> 0, xs |-> <<>>, name |-> "A", params |-> <<>>, lit |-> "", num |-> 0, line |-> 1],
      [k |-> "Literal", x |-> 0, y |-> 0, z |-> 0, xs |-> <<>>, name |-> "", params |-> <<>>, lit |-> "number", num |-> 3, line |-> 1],
      [k |-> "Return", x |-> 379, y |-> 0, z |-> 0, xs |-> <<>>, name |-> "", params |-> <<>>, lit |-> "", num |-> 0, line |-> 1],
      [k |-> "Function", x |-> 0, y |-> 0, z |-> 0, xs |-> <<380>>, name |-> "n", params |-> <<>>, lit |-> "", num |-> 0, line |-> 1],
      [k |-> "Class", x |-> 378, y |-> 0, z |-> 0, xs |-> <<381>>, name |-> "B", params |-> <<>>, lit |-> "", num |-> 0, line |-> 1],
      [k |-> "Variable", x |-> 0, y |-> 0, z |-> 0, xs |-> <<>>, name |-> "B", params |-> <<>>, lit |-> "", num |-> 0, line |-> 2],
      [k |-> "Call", x |-> 383, y |-> 0, z |-> 0, xs |-> <<>>, name |-> "", params |-> <<>>, lit |-> "", num |-> 0, line |-> 2],
      [k |-> "Var", x |-> 384, y |-> 0, z |-> 0, xs |-> <<>>, name |-> "b", params |-> <<>>, lit |-> "", num |-> 0, line |-> 2],
      [k |-> "Variable", x |-> 0, y |-> 0, z |-> 0, xs |-> <<>>, name |-> "b", params |-> <<>>, lit |-> "", num |-> 0, line |-> 2],
      [k |-> "Get", x |-> 386, y |-> 0, z |-> 0, xs |-> <<>>, name |-> "n", params |-> <<>>, lit |-> "", num |-> 0, line |-> 2],
      [k |-> "Call", x |-> 387, y |-> 0, z |-> 0, xs |-> <<>>, name |-> "", params |-> <<>>, lit |-> "", num |-> 0, line |-> 2],
      [k |-> "Print", x |-> 388, y |-> 0, z |-> 0, xs |-> <<>>, name |-> "", params |-> <<>>, lit |-> "", num |-> 0, line |-> 2],
      [k |-> "Variable", x |-> 0, y |-> 0, z |-> 0, xs |-> <<>>, name |-> "b", params |-> <<>>, lit |-> "", num |-> 0, line |-> 2],
      [k |-> "Get", x |-> 390, y |-> 0, z |-> 0, xs |-> <<>>, name |-> "m", params |-> <<>>, lit |-> "", num |-> 0, line |-> 2],
      [k |-> "Call", x |-> 391, y |-> 0, z |-> 0, xs |-> <<>>, name |-> "", params |-> <<>>, lit |-> "", num |-> 0, line |-> 2],
      [k |-> "Print", x |-> 392, y |-> 0, z |-> 0, xs |-> <<>>, name |-> "", params |-> <<>>, lit |-> "", num |-> 0, line |-> 2],
      [k |-> "Variable", x |-> 0, y |-> 0, z |-> 0, xs |-> <<>>, name |-> "b", params |-> <<>>, lit |-> "", num |-> 0, line |-> 2],
      [k |-> "Get", x |-> 394, y |-> 0, z |-> 0, xs |-> <<>>, name |-> "m", params |-> <<>>, lit |-> "", num |-> 0, line |-> 2],
      [k |-> "Literal", x |-> 0, y |-> 0, z |-> 0, xs |-> <<>>, name |-> "", params |-> <<>>, lit |-> "number", num |-> 4, line |-> 2],
      [k |-> "Set", x |-> 394, y |-> 396, z |-> 0, xs |-> <<>>, name |-> "m", params |-> <<>>, lit |-> "", num |-> 0, line |-> 2],
      [k |-> "Expression", x |-> 397, y |-> 0, z |-> 0, xs |-> <<>>, name |-> "", params |-> <<>>, lit |-> "", num |-> 0, line |-> 2],
      [k |-> "Variable", x |-> 0, y |-> 0, z |-> 0, xs |-> <<>>, name |-> "b", params |-> <<>>, lit |-> "", num |-> 0, line |-> 2],
      [k |-> "Get", x |-> 399, y |-> 0, z |-> 0, xs |-> <<>>, name |-> "m", params |-> <<>>, lit |-> "", num |-> 0, line |-> 2],
      [k |-> "Print", x |-> 400, y |-> 0, z |-> 0, xs |-> <<>>, name |-> "", params |-> <<>>, lit |-> "", num |-> 0, line |-> 2],
      [k |-> "This", x |-> 0, y |-> 0, z |-> 0, xs |-> <<>>, name |-> "", params |-> <<>>, lit |-> "", num |-> 0, line |-> 0],
      [k |-> "Get", x |-> 402, y |-> 0, z |-> 0, xs |-> <<>>, name |-> "n", params |-> <<>>, lit |-> "", num |-> 0, line |-> 0],
      [k |-> "Return", x |-> 403, y |-> 0, z |-> 0, xs |-> <<>>, name |-> "", params |-> <<>>, lit |-> "", num |-> 0, line |-> 0],
      [k |-> "Function", x |-> 0, y |-> 0, z |-> 0, xs |-> <<404>>, name |-> "who", params |-> <<>>, lit |-> "", num |-> 0, line |-> 0],
      [k |-> "Class", x |-> 0, y |-> 0, z |-> 0, xs |-> <<405>>, name |-> "A", params |-> <<>>, lit |-> "", num |-> 0, line |-> 0],
      [k |-> "Variable", x |-> 0, y |-> 0, z |-> 0, xs |-> <<>>, name |-> "A", params |-> <<>>, lit |-> "", num |-> 0, line |-> 1],
      [k |-> "Super", x |-> 0, y |-> 0, z |-> 0, xs |-> <<>>, name |-> "who", params |-> <<>>, lit |-> "", num |-> 0, line |-> 1],
      [k |-> "Call", x |-> 408, y |-> 0, z |-> 0, xs |-> <<>>, name |-> "", params |-> <<>>, lit |-> "", num |-> 0, line |-> 1],
      [k |-> "Return", x |-> 409, y |-> 0, z |-> 0, xs |-> <<>>, name |-> "", params |-> <<>>, lit |-> "", num |-> 0, line |-> 1],
      [k |-> "Function", x |-> 0, y |-> 0, z |-> 0, xs |-> <<410>>, name |-> "f", params |-> <<>>, lit |-> "", num |-> 0, line |-> 1],
      [k |-> "Variable", x |-> 0, y |-> 0, z |-> 0, xs |-> <<>>, name |-> "f", params |-> <<>>, lit |-> "", num |-> 0, line |-> 1],
      [k |-> "Return", x |-> 412, y |-> 0, z |-> 0, xs |-> <<>>, name |-> "", params |-> <<>>, lit |-> "", num |-> 0, line |-> 1],
      [k |-> "Block", x |-> 0, y |-> 0, z |-> 0, xs |-> <<411, 413>>, name |-> "", params |-> <<>>, lit |-> "", num |-> 0, line |-> 1],
      [k |-> "Function", x |-> 0, y |-> 0, z |-> 0, xs |-> <<414>>, name |-> "who", params |-> <<>>, lit |-> "", num |-> 0, line |-> 1],
      [k |-> "Class", x |-> 407, y |-> 0, z |-> 0, xs |-> <<415>>, name |-> "B", params |-> <<>>, lit |-> "", num |-> 0, line |-> 1],
      [k |-> "Variable", x |-> 0, y |-> 0, z |-> 0, xs |-> <<>>, name |-> "B", params |-> <<>>, lit |-> "", num |-> 0, line |-> 2],
      [k |-> "Call", x |-> 417, y |-> 0, z |-> 0, xs |-> <<>>, name |-> "", params |-> <<>>, lit |-> "", num |-> 0, line |-> 2],
      [k |-> "Var", x |-> 418, y |-> 0, z |-> 0, xs |-> <<>>, name |-> "b", params |-> <<>>, lit |-> "", num |-> 0, line |-> 2],
      [k |-> "Variable", x |-> 0, y |-> 0, z |-> 0, xs |-> <<>>, name |-> "b", params |-> <<>>, lit |-> "", num |-> 0, line |-> 2],
      [k |-> "Get", x |-> 420, y |-> 0, z |-> 0, xs |-> <<>>, name |-> "n", params |-> <<>>, lit |-> "", num |-> 0, line |-> 2],
      [k |-> "Literal", x |-> 0, y |-> 0, z |-> 0, xs |-> <<>>, name |-> "", params |-> <<>>, lit |-> "number", num |-> 7, line |-> 2],
      [k |-> "Set", x |-> 420, y |-> 422, z |-> 0, xs |-> <<>>, name |-> "n", params |-> <<>>, lit |-> "", num |-> 0, line |-> 2],
      [k |-> "Expression", x |-> 423, y |-> 0, z |-> 0, xs |-> <<>>, name |-> "", params |-> <<>>, lit |-> "", num |-> 0, line |-> 2],
      [k |-> "Variable", x |-> 0, y |-> 0, z |-> 0, xs |-> <<>>, name |-> "b", params |-> <<>>, lit |-> "", num |-> 0, line |-> 2],
      [k |-> "Get", x |-> 425, y |-> 0, z |-> 0, xs |-> <<>>, name |-> "who", params |-> <<>>, lit |-> "", num |-> 0, line |-> 2],
      [k |-> "Call", x |-> 426, y |-> 0, z |-> 0, xs |-> <<>>, name |-> "", params |-> <<>>, lit |-> "", num |-> 0, line |-> 2],
      [k |-> "Call", x |-> 427, y |-> 0, z |-> 0, xs |-> <<>>, name |-> "", params |-> <<>>, lit |-> "", num |-> 0, line |-> 2],
      [k |-> "Print", x |-> 428, y |-> 0, z |-> 0, xs |-> <<>>, name |-> "", params |-> <<>>, lit |-> "", num |-> 0, line |-> 2],
      [k |-> "Variable", x |-> 0, y |-> 0, z |-> 0, xs |-> <<>>, name |-> "x", params |-> <<>>, lit |-> "", num |-> 0, line |-> 0],
      [k |-> "Print", x |-> 430, y |-> 0, z |-> 0, xs |-> <<>>, name |-> "", params |-> <<>>, lit |-> "", num |-> 0, line |-> 0],
      [k |-> "Variable", x |-> 0, y |-> 0, z |-> 0, xs |-> <<>>, name |-> "x", params |-> <<>>, lit |-> "", num |-> 0, line |-> 0],
      [k |-> "Return", x |-> 432, y |-> 0, z |-> 0, xs |-> <<>>, name |-> "", params |-> <<>>, lit |-> "", num |-> 0, line |-> 0],
      [k |-> "Function", x |-> 0, y |-> 0, z |-> 0, xs |-> <<431, 433>>, name |-> "p", params |-> <<"x">>, lit |-> "", num |-> 0, line |-> 0],
      [k |-> "Variable", x |-> 0, y |-> 0, z |-> 0, xs |-> <<>>, name |-> "a", params |-> <<>>, lit |-> "", num |-> 0, line |-> 1],
      [k |-> "Return", x |-> 435, y |-> 0, z |-> 0, xs |-> <<>>, name |-> "", params |-> <<>>, lit |-> "", num |-> 0, line |-> 1],
      [k |-> "Function", x |-> 0, y |-> 0, z |-> 0, xs |-> <<436>>, name |-> "two", params |-> <<"a", "b">>, lit |-> "", num |-> 0, line |-> 1],
      [k |-> "Variable", x |-> 0, y |-> 0, z |-> 0, xs |-> <<>>, name |-> "two", params |-> <<>>, lit |-> "", num |-> 0, line |-> 2],
      [k |-> "Variable", x |-> 0, y |-> 0, z |-> 0, xs |-> <<>>, name |-> "p", params |-> <<>>, lit |-> "", num |-> 0, line |-> 2],
      [k |-> "Literal", x |-> 0, y |-> 0, z |-> 0, xs |-> <<>>, name |-> "", params |-> <<>>, lit |-> "number", num |-> 1, line |-> 2],
      [k |-> "Call", x |-> 439, y |-> 0, z |-> 0, xs |-> <<440>>, name |-> "", params |-> <<>>, lit |-> "", num |-> 0, line |-> 2],
      [k |-> "Variable", x |-> 0, y |-> 0, z |-> 0, xs |-> <<>>, name |-> "p", params |-> <<>>, lit |-> "", num |-> 0, line |-> 2],
      [k |-> "Literal", x |-> 0, y |-> 0, z |-> 0, xs |-> <<>>, name |-> "", params |-> <<>>, lit |-> "number", num |-> 2, line |-> 2],
      [k |-> "Call", x |-> 442, y |-> 0, z |-> 0, xs |-> <<443>>, name |-> "", params |-> <<>>, lit |-> "", num |-> 0, line |-> 2],
      [k |-> "Call", x |-> 438, y |-> 0, z |-> 0, xs |-> <<441, 444>>, name |-> "", params |-> <<>>, lit |-> "", num |-> 0, line |-> 2],
      [k |-> "Print", x |-> 445, y |-> 0, z |-> 0, xs |-> <<>>, name |-> "", params |-> <<>>, lit |-> "", num |-> 0, line |-> 2],
      [k |-> "Literal", x |-> 0, y |-> 0, z |-> 0, xs |-> <<>>, name |-> "s", params |-> <<>>, lit |-> "string", num |-> 0, line |-> 2],
      [k |-> "Variable", x |-> 0, y |-> 0, z |-> 0, xs |-> <<>>, name |-> "p", params |-> <<>>, lit |-> "", num |-> 0, line |-> 2],
      [k |-> "Literal", x |-> 0, y |-> 0, z |-> 0, xs |-> <<>>, name |-> "", params |-> <<>>, lit |-> "number", num |-> 3, line |-> 2],
      [k |-> "Call", x |-> 448, y |-> 0, z |-> 0, xs |-> <<449>>, name |-> "", params |-> <<>>, lit |-> "", num |-> 0, line |-> 2],
      [k |-> "Call", x |-> 447, y |-> 0, z |-> 0, xs |-> <<450>>, name |-> "", params |-> <<>>, lit |-> "", num |-> 0, line |-> 2],
      [k |-> "Expression", x |-> 451, y |-> 0, z |-> 0, xs |-> <<>>, name |-> "", params |-> <<>>, lit |-> "", num |-> 0, line |-> 2],
      [k |-> "Variable", x |-> 0, y |-> 0, z |-> 0, xs |-> <<>>, name |-> "x", params |-> <<>>, lit |-> "", num |-> 0, line |-> 0],
      [k |-> "Print", x |-> 453, y |-> 0, z |-> 0, xs |-> <<>>, name |-> "", params |-> <<>>, lit |-> "", num |-> 0, line |-> 0],
      [k |-> "Variable", x |-> 0, y |-> 0, z |-> 0, xs |-> <<>>, name |-> "x", params |-> <<>>, lit |-> "", num |-> 0, line |-> 0],
      [k |-> "Return", x |-> 455, y |-> 0, z |-> 0, xs |-> <<>>, name |-> "", params |-> <<>>, lit |-> "", num |-> 0, line |-> 0],
      [k |-> "Function", x |-> 0, y |-> 0, z |-> 0, xs |-> <<454, 456>>, name |-> "p", params |-> <<"x">>, lit |-> "", num |-> 0, line |-> 0],
      [k |-> "Variable", x |-> 0, y |-> 0, z |-> 0, xs |-> <<>>, name |-> "p", params |-> <<>>, lit |-> "", num |-> 0, line |-> 1],
      [k |-> "Literal", x |-> 0, y |-> 0, z |-> 0, xs |-> <<>>, name |-> "a", params |-> <<>>, lit |-> "string", num |-> 0, line |-> 1],
      [k |-> "Call", x |-> 458, y |-> 0, z |-> 0, xs |-> <<459>>, name |-> "", params |-> <<>>, lit |-> "", num |-> 0, line |-> 1],
      [k |-> "Variable", x |-> 0, y |-> 0, z |-> 0, xs |-> <<>>, name |-> "p", params |-> <<>>, lit |-> "", num |-> 0, line |-> 1],
      [k |-> "Literal", x |-> 0, y |-> 0, z |-> 0, xs |-> <<>>, name |-> "", params |-> <<>>, lit |-> "number", num |-> 1, line |-> 1],
      [k |-> "Call", x |-> 461, y |-> 0, z |-> 0, xs |-> <<462>>, name |-> "", params |-> <<>>, lit |-> "", num |-> 0, line |-> 1],
      [k |-> "Binary", x |-> 460, y |-> 463, z |-> 0, xs |-> <<>>, name |-> "<", params |-> <<>>, lit |-> "", num |-> 0, line |-> 1],
      [k |-> "Print", x |-> 464, y |-> 0, z |-> 0, xs |-> <<>>, name |-> "", params |-> <<>>, lit |-> "", num |-> 0, line |-> 1],
      [k |-> "Variable", x |-> 0, y |-> 0, z |-> 0, xs |-> <<>>, name |-> "p", params |-> <<>>, lit |-> "", num |-> 0, line |-> 2],
      [k |-> "Literal", x |-> 0, y |-> 0, z |-> 0, xs |-> <<>>, name |-> "", params |-> <<>>, lit |-> "number", num |-> 1, line |-> 2],
      [k |-> "Call", x |-> 466, y |-> 0, z |-> 0, xs |-> <<467>>, name |-> "", params |-> <<>>, lit |-> "", num |-> 0, line |-> 2],
      [k |-> "Variable", x |-> 0, y |-> 0, z |-> 0, xs |-> <<>>, name |-> "p", params |-> <<>>, lit |-> "", num |-> 0, line |-> 2],
      [k |-> "Literal", x |-> 0, y |-> 0, z |-> 0, xs |-> <<>>, name |-> "", params |-> <<>>, lit |-> "number", num |-> 0, line |-> 2],
      [k |-> "Call", x |-> 469, y |-> 0, z |-> 0, xs |-> <<470>>, name |-> "", params |-> <<>>, lit |-> "", num |-> 0, line |-> 2],
      [k |-> "Binary", x |-> 468, y |-> 471, z |-> 0, xs |-> <<>>, name |-> "/", params |-> <<>>, lit |-> "", num |-> 0, line |-> 2],
      [k |-> "Print", x |-> 472, y |-> 0, z |-> 0, xs |-> <<>>, name |-> "", params |-> <<>>, lit |-> "", num |-> 0, line |-> 2],
      [k |-> "Variable", x |-> 0, y |-> 0, z |-> 0, xs |-> <<>>, name |-> "x", params |-> <<>>, lit |-> "", num |-> 0, line |-> 0],
      [k |-> "Print", x |-> 474, y |-> 0, z |-> 0, xs |-> <<>>, name |-> "", params |-> <<>>, lit |-> "", num |-> 0, line |-> 0],
      [k |-> "Variable", x |-> 0, y |-> 0, z |-> 0, xs |-> <<>>, name |-> "x", params |-> <<>>, lit |-> "", num |-> 0, line |-> 0],
      [k |-> "Return", x |-> 476, y |-> 0, z |-> 0, xs |-> <<>>, name |-> "", params |-> <<>>, lit |-> "", num |-> 0, line |-> 0],
      [k |-> "Function", x |-> 0, y |-> 0, z |-> 0, xs |-> <<475, 477>>, name |-> "p", params |-> <<"x">>, lit |-> "", num |-> 0, line |-> 0],
      [k |-> "Variable", x |-> 0, y |-> 0, z |-> 0, xs |-> <<>>, name |-> "p", params |-> <<>>, lit |-> "", num |-> 0, line |-> 1],
      [k |-> "Literal", x |-> 0, y |-> 0, z |-> 0, xs |-> <<>>, name |-> "", params |-> <<>>, lit |-> "nil", num |-> 0, line |-> 1],
      [k |-> "Call", x |-> 479, y |-> 0, z |-> 0, xs |-> <<480>>, name |-> "", params |-> <<>>, lit |-> "", num |-> 0, line |-> 1],
      [k |-> "Variable", x |-> 0, y |-> 0, z |-> 0, xs |-> <<>>, name |-> "p", params |-> <<>>, lit |-> "", num |-> 0, line |-> 1],
      [k |-> "Literal", x |-> 0, y |-> 0, z |-> 0, xs |-> <<>>, name |-> "", params |-> <<>>, lit |-> "number", num |-> 1, line |-> 1],
      [k |-> "Call", x |-> 482, y |-> 0, z |-> 0, xs |-> <<483>>, name |-> "", params |-> <<>>, lit |-> "", num |-> 0, line |-> 1],
      [k |-> "Logical", x |-> 481, y |-> 484, z |-> 0, xs |-> <<>>, name |-> "and", params |-> <<>>, lit |-> "", num |-> 0, line |-> 1],
      [k |-> "Print", x |-> 485, y |-> 0, z |-> 0, xs |-> <<>>, name |-> "", params |-> <<>>, lit |-> "", num |-> 0, line |-> 1],
      [k |-> "Variable", x |-> 0, y |-> 0, z |-> 0, xs |-> <<>>, name |-> "p", params |-> <<>>, lit |-> "", num |-> 0, line |-> 1],
      [k |-> "Literal", x |-> 0, y |-> 0, z |-> 0, xs |-> <<>>, name |-> "", params |-> <<>>, lit |-> "number", num |-> 2, line |-> 1],
      [k |-> "Call", x |-> 487, y |-> 0, z |-> 0, xs |-> <<488>>, name |-> "", params |-> <<>>, lit |-> "", num |-> 0, line |-> 1],
      [k |-> "Variable", x |-> 0, y |-> 0, z |-> 0, xs |-> <<>>, name |-> "p", params |-> <<>>, lit |-> "", num |-> 0, line |-> 1],
      [k |-> "Literal", x |-> 0, y |-> 0, z |-> 0, xs |-> <<>>, name |-> "", params |-> <<>>, lit |-> "number", num |-> 3, line |-> 1],
      [k |-> "Call", x |-> 490, y |-> 0, z |-> 0, xs |-> <<491>>, name |-> "", params |-> <<>>, lit |-> "", num |-> 0, line |-> 1],
      [k |-> "Logical", x |-> 489, y |-> 492, z |-> 0, xs |-> <<>>, name |-> "or", params |-> <<>>, lit |-> "", num |-> 0, line |-> 1],
      [k |-> "Print", x |-> 493, y |-> 0, z |-> 0, xs |-> <<>>, name |-> "", params |-> <<>>, lit |-> "", num |-> 0, line |-> 1],
      [k |-> "Variable", x |-> 0, y |-> 0, z |-> 0, xs |-> <<>>, name |-> "p", params |-> <<>>, lit |-> "", num |-> 0, line |-> 2],
      [k |-> "Literal", x |-> 0, y |-> 0, z |-> 0, xs |-> <<>>, name |-> "", params |-> <<>>, lit |-> "false", num |-> 0, line |-> 2],
      [k |-> "Call", x |-> 495, y |-> 0, z |-> 0, xs |-> <<496>>, name |-> "", params |-> <<>>, lit |-> "", num |-> 0, line |-> 2],
      [k |-> "Variable", x |-> 0, y |-> 0, z |-> 0, xs |-> <<>>, name |-> "p", params |-> <<>>, lit |-> "", num |-> 0, line |-> 2],
      [k |-> "Literal", x |-> 0, y |-> 0, z |-> 0, xs |-> <<>>, name |-> "", params |-> <<>>, lit |-> "number", num |-> 4, line |-> 2],
      [k |-> "Call", x |-> 498, y |-> 0, z |-> 0, xs |-> <<499>>, name |-> "", params |-> <<>>, lit |-> "", num |-> 0, line |-> 2],
      [k |-> "Logical", x |-> 497, y |-> 500, z |-> 0, xs |-> <<>>, name |-> "or", params |-> <<>>, lit |-> "", num |-> 0, line |-> 2],
      [k |-> "Print", x |-> 501, y |-> 0, z |-> 0, xs |-> <<>>, name |-> "", params |-> <<>>, lit |-> "", num |-> 0, line |-> 2],
      [k |-> "Variable", x |-> 0, y |-> 0, z |-> 0, xs |-> <<>>, name |-> "p", params |-> <<>>, lit |-> "", num |-> 0, line |-> 2],
      [k |-> "Literal", x |-> 0, y |-> 0, z |-> 0, xs |-> <<>>, name |-> "", params |-> <<>>, lit |-> "number", num |-> 5, line |-> 2],
      [k |-> "Call", x |-> 503, y |-> 0, z |-> 0, xs |-> <<504>>, name |-> "", params |-> <<>>, lit |-> "", num |-> 0, line |-> 2],
      [k |-> "Variable", x |-> 0, y |-> 0, z |-> 0, xs |-> <<>>, name |-> "p", params |-> <<>>, lit |-> "", num |-> 0, line |-> 2],
      [k |-> "Literal", x |-> 0, y |-> 0, z |-> 0, xs |-> <<>>, name |-> "", params |-> <<>>, lit |-> "number", num |-> 6, line |-> 2],
      [k |-> "Call", x |-> 506, y |-> 0, z |-> 0, xs |-> <<507>>, name |-> "", params |-> <<>>, lit |-> "", num |-> 0, line |-> 2],
      [k |-> "Logical", x |-> 505, y |-> 508, z |-> 0, xs |-> <<>>, name |-> "and", params |-> <<>>, lit |-> "", num |-> 0, line |-> 2],
      [k |-> "Print", x |-> 509, y |-> 0, z |-> 0, xs |-> <<>>, name |-> "", params |-> <<>>, lit |-> "", num |-> 0, line |-> 2],
      [k |-> "Literal", x |-> 0, y |-> 0, z |-> 0, xs |-> <<>>, name |-> "", params |-> <<>>, lit |-> "number", num |-> 0, line |-> 0],
      [k |-> "Var", x |-> 511, y |-> 0, z |-> 0, xs |-> <<>>, name |-> "i", params |-> <<>>, lit |-> "", num |-> 0, line |-> 0],
      [k |-> "Variable", x |-> 0, y |-> 0, z |-> 0, xs |-> <<>>, name |-> "i", params |-> <<>>, lit |-> "", num |-> 0, line |-> 0],
      [k |-> "Literal", x |-> 0, y |-> 0, z |-> 0, xs |-> <<>>, name |-> "", params |-> <<>>, lit |-> "number", num |-> 3, line |-> 0],
      [k |-> "Binary", x |-> 513, y |-> 514, z |-> 0, xs |-> <<>>, name |-> "<", params |-> <<>>, lit |-> "", num |-> 0, line |-> 0],
      [k |-> "Variable", x |-> 0, y |-> 0, z |-> 0, xs |-> <<>>, name |-> "i", params |-> <<>>, lit |-> "", num |-> 0, line |-> 0],
      [k |-> "Literal", x |-> 0, y |-> 0, z |-> 0, xs |-> <<>>, name |-> "", params |-> <<>>, lit |-> "number", num |-> 1, line |-> 0],
      [k |-> "Binary", x |-> 516, y |-> 517, z |-> 0, xs |-> <<>>, name |-> "==", params |-> <<>>, lit |-> "", num |-> 0, line |-> 0],
      [k |-> "Variable", x |-> 0, y |-> 0, z |-> 0, xs |-> <<>>, name |-> "i", params |-> <<>>, lit |-> "", num |-> 0, line |-> 0],
      [k |-> "Return", x |-> 519, y |-> 0, z |-> 0, xs |-> <<>>, name |-> "", params |-> <<>>, lit |-> "", num |-> 0, line |-> 0],
      [k |-> "Block", x |-> 0, y |-> 0, z |-> 0, xs |-> <<520>>, name |-> "", params |-> <<>>, lit |-> "", num |-> 0, line |-> 0],
      [k |-> "If", x |-> 518, y |-> 521, z |-> 0, xs |-> <<>>, name |-> "", params |-> <<>>, lit |-> "", num |-> 0, line |-> 0],
      [k |-> "Variable", x |-> 0, y |-> 0, z |-> 0, xs |-> <<>>, name |-> "i", params |-> <<>>, lit |-> "", num |-> 0, line |-> 0],
      [k |-> "Variable", x |-> 0, y |-> 0, z |-> 0, xs |-> <<>>, name |-> "i", params |-> <<>>, lit |-> "", num |-> 0, line |-> 0],
      [k |-> "Literal", x |-> 0, y |-> 0, z |-> 0, xs |-> <<>>, name |-> "", params |-> <<>>, lit |-> "number", num |-> 1, line |-> 0],
      [k |-> "Binary", x |-> 524, y |-> 525, z |-> 0, xs |-> <<>>, name |-> "+", params |-> <<>>, lit |-> "", num |-> 0, line |-> 0],
      [k |-> "Assign", x |-> 526, y |-> 0, z |-> 0, xs |-> <<>>, name |-> "i", params |-> <<>>, lit |-> "", num |-> 0, line |-> 0],
      [k |-> "Expression", x |-> 527, y |-> 0, z |-> 0, xs |-> <<>>, name |-> "", params |-> <<>>, lit |-> "", num |-> 0, line |-> 0],
      [k |-> "Variable", x |-> 0, y |-> 0, z |-> 0, xs |-> <<>>, name |-> "i", params |-> <<>>, lit |-> "", num |-> 0, line |-> 0],
      [k |-> "Print", x |-> 529, y |-> 0, z |-> 0, xs |-> <<>>, name |-> "", params |-> <<>>, lit |-> "", num |-> 0, line |-> 0],
      [k |-> "Block", x |-> 0, y |-> 0, z |-> 0, xs |-> <<522, 528, 530>>, name |-> "", params |-> <<>>, lit |-> "", num |-> 0, line |-> 0],
      [k |-> "While", x |-> 515, y |-> 531, z |-> 0, xs |-> <<>>, name |-> "", params |-> <<>>, lit |-> "", num |-> 0, line |-> 0],
      [k |-> "Literal", x |-> 0, y |-> 0, z |-> 0, xs |-> <<>>, name |-> "", params |-> <<>>, lit |-> "number", num |-> 9, line |-> 0],
      [k |-> "Print", x |-> 533, y |-> 0, z |-> 0, xs |-> <<>>, name |-> "", params |-> <<>>, lit |-> "", num |-> 0, line |-> 0],
      [k |-> "Function", x |-> 0, y |-> 0, z |-> 0, xs |-> <<512, 532, 534>>, name |-> "f", params |-> <<>>, lit |-> "", num |-> 0, line |-> 0],
      [k |-> "Variable", x |-> 0, y |-> 0, z |-> 0, xs |-> <<>>, name |-> "f", params |-> <<>>, lit |-> "", num |-> 0, line |-> 1],
      [k |-> "Call", x |-> 536, y |-> 0, z |-> 0, xs |-> <<>>, name |-> "", params |-> <<>>, lit |-> "", num |-> 0, line |-> 1],
      [k |-> "Print", x |-> 537, y |-> 0, z |-> 0, xs |-> <<>>, name |-> "", params |-> <<>>, lit |-> "", num |-> 0, line |-> 1],
      [k |-> "Literal", x |-> 0, y |-> 0, z |-> 0, xs |-> <<>>, name |-> "", params |-> <<>>, lit |-> "number", num |-> 2, line |-> 1],
      [k |-> "Print", x |-> 539, y |-> 0, z |-> 0, xs |-> <<>>, name |-> "", params |-> <<>>, lit |-> "", num |-> 0, line |-> 1],
      [k |-> "Literal", x |-> 0, y |-> 0, z |-> 0, xs |-> <<>>, name |-> "", params |-> <<>>, lit |-> "number", num |-> 1, line |-> 0],
      [k |-> "Var", x |-> 541, y |-> 0, z |-> 0, xs |-> <<>>, name |-> "a", params |-> <<>>, lit |-> "", num |-> 0, line |-> 0],
      [k |-> "Variable", x |-> 0, y |-> 0, z |-> 0, xs |-> <<>>, name |-> "a", params |-> <<>>, lit |-> "", num |-> 0, line |-> 0],
      [k |-> "Literal", x |-> 0, y |-> 0, z |-> 0, xs |-> <<>>, name |-> "", params |-> <<>>, lit |-> "nil", num |-> 0, line |-> 0],
      [k |-> "Binary", x |-> 543, y |-> 544, z |-> 0, xs |-> <<>>, name |-> "+", params |-> <<>>, lit |-> "", num |-> 0, line |-> 0],
      [k |-> "Print", x |-> 545, y |-> 0, z |-> 0, xs |-> <<>>, name |-> "", params |-> <<>>, lit |-> "", num |-> 0, line |-> 0],
      [k |-> "Literal", x |-> 0, y |-> 0, z |-> 0, xs |-> <<>>, name |-> "", params |-> <<>>, lit |-> "number", num |-> 9, line |-> 0],
      [k |-> "Print", x |-> 547, y |-> 0, z |-> 0, xs |-> <<>>, name |-> "", params |-> <<>>, lit |-> "", num |-> 0, line |-> 0],
      [k |-> "Variable", x |-> 0, y |-> 0, z |-> 0, xs |-> <<>>, name |-> "a", params |-> <<>>, lit |-> "", num |-> 0, line |-> 1],
      [k |-> "Print", x |-> 549, y |-> 0, z |-> 0, xs |-> <<>>, name |-> "", params |-> <<>>, lit |-> "", num |-> 0, line |-> 1],
      [k |-> "Variable", x |-> 0, y |-> 0, z |-> 0, xs |-> <<>>, name |-> "f", params |-> <<>>, lit |-> "", num |-> 0, line |-> 1],
      [k |-> "Call", x |-> 551, y |-> 0, z |-> 0, xs |-> <<>>, name |-> "", params |-> <<>>, lit |-> "", num |-> 0, line |-> 1],
      [k |-> "Expression", x |-> 552, y |-> 0, z |-> 0, xs |-> <<>>, name |-> "", params |-> <<>>, lit |-> "", num |-> 0, line |-> 1],
      [k |-> "Block", x |-> 0, y |-> 0, z |-> 0, xs |-> <<553>>, name |-> "", params |-> <<>>, lit |-> "", num |-> 0, line |-> 1],
      [k |-> "Function", x |-> 0, y |-> 0, z |-> 0, xs |-> <<554>>, name |-> "f", params |-> <<>>, lit |-> "", num |-> 0, line |-> 1],
      [k |-> "Variable", x |-> 0, y |-> 0, z |-> 0, xs |-> <<>>, name |-> "f", params |-> <<>>, lit |-> "", num |-> 0, line |-> 1],
      [k |-> "Call", x |-> 556, y |-> 0, z |-> 0, xs |-> <<>>, name |-> "", params |-> <<>>, lit |-> "", num |-> 0, line |-> 1],
      [k |-> "Expression", x |-> 557, y |-> 0, z |-> 0, xs |-> <<>>, name |-> "", params |-> <<>>, lit |-> "", num |-> 0, line |-> 1],
      [k |-> "Literal", x |-> 0, y |-> 0, z |-> 0, xs |-> <<>>, name |-> "", params |-> <<>>, lit |-> "number", num |-> 8, line |-> 1],
      [k |-> "Print", x |-> 559, y |-> 0, z |-> 0, xs |-> <<>>, name |-> "", params |-> <<>>, lit |-> "", num |-> 0, line |-> 1],
      [k |-> "Variable", x |-> 0, y |-> 0, z |-> 0, xs |-> <<>>, name |-> "a", params |-> <<>>, lit |-> "", num |-> 0, line |-> 2],
      [k |-> "Print", x |-> 561, y |-> 0, z |-> 0, xs |-> <<>>, name |-> "", params |-> <<>>, lit |-> "", num |-> 0, line |-> 2],
      [k |-> "Literal", x |-> 0, y |-> 0, z |-> 0, xs |-> <<>>, name |-> "", params |-> <<>>, lit |-> "number", num |-> 1, line |-> 0],
      [k |-> "Return", x |-> 563, y |-> 0, z |-> 0, xs |-> <<>>, name |-> "", params |-> <<>>, lit |-> "", num |-> 0, line |-> 0],
      [k |-> "Block", x |-> 0, y |-> 0, z |-> 0, xs |-> <<564>>, name |-> "", params |-> <<>>, lit |-> "", num |-> 0, line |-> 0],
      [k |-> "Function", x |-> 0, y |-> 0, z |-> 0, xs |-> <<565>>, name |-> "f", params |-> <<>>, lit |-> "", num |-> 0, line |-> 0],
      [k |-> "Literal", x |-> 0, y |-> 0, z |-> 0, xs |-> <<>>, name |-> "", params |-> <<>>, lit |-> "number", num |-> 2, line |-> 0],
      [k |-> "Return", x |-> 567, y |-> 0, z |-> 0, xs |-> <<>>, name |-> "", params |-> <<>>, lit |-> "", num |-> 0, line |-> 0],
      [k |-> "Literal", x |-> 0, y |-> 0, z |-> 0, xs |-> <<>>, name |-> "", params |-> <<>>, lit |-> "number", num |-> 3, line |-> 0],
      [k |-> "Return", x |-> 569, y |-> 0, z |-> 0, xs |-> <<>>, name |-> "", params |-> <<>>, lit |-> "", num |-> 0, line |-> 0],
      [k |-> "Block", x |-> 0, y |-> 0, z |-> 0, xs |-> <<570>>, name |-> "", params |-> <<>>, lit |-> "", num |-> 0, line |-> 0],
      [k |-> "Literal", x |-> 0, y |-> 0, z |-> 0, xs |-> <<>>, name |-> "", params |-> <<>>, lit |-> "number", num |-> 4, line |-> 1],
      [k |-> "Return", x |-> 572, y |-> 0, z |-> 0, xs |-> <<>>, name |-> "", params |-> <<>>, lit |-> "", num |-> 0, line |-> 1],
      [k |-> "Function", x |-> 0, y |-> 0, z |-> 0, xs |-> <<573>>, name |-> "g", params |-> <<>>, lit |-> "", num |-> 0, line |-> 1],
      [k |-> "Literal", x |-> 0, y |-> 0, z |-> 0, xs |-> <<>>, name |-> "", params |-> <<>>, lit |-> "true", num |-> 0, line |-> 1],
      [k |-> "Variable", x |-> 0, y |-> 0, z |-> 0, xs |-> <<>>, name |-> "g", params |-> <<>>, lit |-> "", num |-> 0, line |-> 1],
      [k |-> "Return", x |-> 576, y |-> 0, z |-> 0, xs |-> <<>>, name |-> "", params |-> <<>>, lit |-> "", num |-> 0, line |-> 1],
      [k |-> "Block", x |-> 0, y |-> 0, z |-> 0, xs |-> <<577>>, name |-> "", params |-> <<>>, lit |-> "", num |-> 0, line |-> 1],
      [k |-> "While", x |-> 575, y |-> 578, z |-> 0, xs |-> <<>>, name |-> "", params |-> <<>>, lit |-> "", num |-> 0, line |-> 1],
      [k |-> "Function", x |-> 0, y |-> 0, z |-> 0, xs |-> <<574, 579>>, name |-> "m", params |-> <<>>, lit |-> "", num |-> 0, line |-> 1],
      [k |-> "Class", x |-> 0, y |-> 0, z |-> 0, xs |-> <<580>>, name |-> "A", params |-> <<>>, lit |-> "", num |-> 0, line |-> 1],
      [k |-> "Literal", x |-> 0, y |-> 0, z |-> 0, xs |-> <<>>, name |-> "", params |-> <<>>, lit |-> "true", num |-> 0, line |-> 1],
      [k |-> "Literal", x |-> 0, y |-> 0, z |-> 0, xs |-> <<>>, name |-> "", params |-> <<>>, lit |-> "number", num |-> 6, line |-> 1],
      [k |-> "Return", x |-> 583, y |-> 0, z |-> 0, xs |-> <<>>, name |-> "", params |-> <<>>, lit |-> "", num |-> 0, line |-> 1],
      [k |-> "Literal", x |-> 0, y |-> 0, z |-> 0, xs |-> <<>>, name |-> "", params |-> <<>>, lit |-> "number", num |-> 7, line |-> 1],
      [k |-> "Return", x |-> 585, y |-> 0, z |-> 0, xs |-> <<>>, name |-> "", params |-> <<>>, lit |-> "", num |-> 0, line |-> 1],
      [k |-> "Block", x |-> 0, y |-> 0, z |-> 0, xs |-> <<586>>, name |-> "", params |-> <<>>, lit |-> "", num |-> 0, line |-> 1],
      [k |-> "If", x |-> 582, y |-> 584, z |-> 587, xs |-> <<>>, name |-> "", params |-> <<>>, lit |-> "", num |-> 0, line |-> 1],
      [k |-> "Literal", x |-> 0, y |-> 0, z |-> 0, xs |-> <<>>, name |-> "", params |-> <<>>, lit |-> "number", num |-> 8, line |-> 2],
      [k |-> "Return", x |-> 589, y |-> 0, z |-> 0, xs |-> <<>>, name |-> "", params |-> <<>>, lit |-> "", num |-> 0, line |-> 2],
      [k |-> "Function", x |-> 0, y |-> 0, z |-> 0, xs |-> <<590>>, name |-> "h", params |-> <<>>, lit |-> "", num |-> 0, line |-> 2],
      [k |-> "Variable", x |-> 0, y |-> 0, z |-> 0, xs |-> <<>>, name |-> "h", params |-> <<>>, lit |-> "", num |-> 0, line |-> 2],
      [k |-> "Call", x |-> 592, y |-> 0, z |-> 0, xs |-> <<>>, name |-> "", params |-> <<>>, lit |-> "", num |-> 0, line |-> 2],
      [k |-> "Print", x |-> 593, y |-> 0, z |-> 0, xs |-> <<>>, name |-> "", params |-> <<>>, lit |-> "", num |-> 0, line |-> 2],
      [k |-> "Literal", x |-> 0, y |-> 0, z |-> 0, xs |-> <<>>, name |-> "", params |-> <<>>, lit |-> "false", num |-> 0, line |-> 3],
      [k |-> "Literal", x |-> 0, y |-> 0, z |-> 0, xs |-> <<>>, name |-> "", params |-> <<>>, lit |-> "number", num |-> 9, line |-> 3],
      [k |-> "Return", x |-> 596, y |-> 0, z |-> 0, xs |-> <<>>, name |-> "", params |-> <<>>, lit |-> "", num |-> 0, line |-> 3],
      [k |-> "While", x |-> 595, y |-> 597, z |-> 0, xs |-> <<>>, name |-> "", params |-> <<>>, lit |-> "", num |-> 0, line |-> 3],
      [k |-> "Literal", x |-> 0, y |-> 0, z |-> 0, xs |-> <<>>, name |-> "", params |-> <<>>, lit |-> "number", num |-> 1, line |-> 0],
      [k |-> "Return", x |-> 599, y |-> 0, z |-> 0, xs |-> <<>>, name |-> "", params |-> <<>>, lit |-> "", num |-> 0, line |-> 0],
      [k |-> "Function", x |-> 0, y |-> 0, z |-> 0, xs |-> <<600>>, name |-> "init", params |-> <<>>, lit |-> "", num |-> 0, line |-> 0],
      [k |-> "Class", x |-> 0, y |-> 0, z |-> 0, xs |-> <<601>>, name |-> "A", params |-> <<>>, lit |-> "", num |-> 0, line |-> 0],
      [k |-> "Return", x |-> 0, y |-> 0, z |-> 0, xs |-> <<>>, name |-> "", params |-> <<>>, lit |-> "", num |-> 0, line |-> 1],
      [k |-> "Function", x |-> 0, y |-> 0, z |-> 0, xs |-> <<603>>, name |-> "init", params |-> <<>>, lit |-> "", num |-> 0, line |-> 1],
      [k |-> "Class", x |-> 0, y |-> 0, z |-> 0, xs |-> <<604>>, name |-> "B", params |-> <<>>, lit |-> "", num |-> 0, line |-> 1],
      [k |-> "Literal", x |-> 0, y |-> 0, z |-> 0, xs |-> <<>>, name |-> "", params |-> <<>>, lit |-> "number", num |-> 2, line |-> 2],
      [k |-> "Return", x |-> 606, y |-> 0, z |-> 0, xs |-> <<>>, name |-> "", params |-> <<>>, lit |-> "", num |-> 0, line |-> 2],
      [k |-> "Function", x |-> 0, y |-> 0, z |-> 0, xs |-> <<607>>, name |-> "g", params |-> <<>>, lit |-> "", num |-> 0, line |-> 2],
      [k |-> "Function", x |-> 0, y |-> 0, z |-> 0, xs |-> <<608>>, name |-> "init", params |-> <<>>, lit |-> "", num |-> 0, line |-> 2],
      [k |-> "Literal", x |-> 0, y |-> 0, z |-> 0, xs |-> <<>>, name |-> "", params |-> <<>>, lit |-> "number", num |-> 3, line |-> 2],
      [k |-> "Return", x |-> 610, y |-> 0, z |-> 0, xs |-> <<>>, name |-> "", params |-> <<>>, lit |-> "", num |-> 0, line |-> 2],
      [k |-> "Function", x |-> 0, y |-> 0, z |-> 0, xs |-> <<611>>, name |-> "m", params |-> <<>>, lit |-> "", num |-> 0, line |-> 2],
      [k |-> "Class", x |-> 0, y |-> 0, z |-> 0, xs |-> <<612, 609>>, name |-> "C", params |-> <<>>, lit |-> "", num |-> 0, line |-> 2],
      [k |-> "Literal", x |-> 0, y |-> 0, z |-> 0, xs |-> <<>>, name |-> "", params |-> <<>>, lit |-> "number", num |-> 4, line |-> 3],
      [k |-> "Return", x |-> 614, y |-> 0, z |-> 0, xs |-> <<>>, name |-> "", params |-> <<>>, lit |-> "", num |-> 0, line |-> 3],
      [k |-> "Function", x |-> 0, y |-> 0, z |-> 0, xs |-> <<615>>, name |-> "init", params |-> <<>>, lit |-> "", num |-> 0, line |-> 3],
      [k |-> "Literal", x |-> 0, y |-> 0, z |-> 0, xs |-> <<>>, name |-> "", params |-> <<>>, lit |-> "true", num |-> 0, line |-> 4],
      [k |-> "Literal", x |-> 0, y |-> 0, z |-> 0, xs |-> <<>>, name |-> "", params |-> <<>>, lit |-> "number", num |-> 5, line |-> 4],
      [k |-> "Return", x |-> 618, y |-> 0, z |-> 0, xs |-> <<>>, name |-> "", params |-> <<>>, lit |-> "", num |-> 0, line |-> 4],
      [k |-> "If", x |-> 617, y |-> 619, z |-> 0, xs |-> <<>>, name |-> "", params |-> <<>>, lit |-> "", num |-> 0, line |-> 4],
      [k |-> "Block", x |-> 0, y |-> 0, z |-> 0, xs |-> <<620>>, name |-> "", params |-> <<>>, lit |-> "", num |-> 0, line |-> 4],
      [k |-> "Literal", x |-> 0, y |-> 0, z |-> 0, xs |-> <<>>, name |-> "", params |-> <<>>, lit |-> "number", num |-> 6, line |-> 4],
      [k |-> "Return", x |-> 622, y |-> 0, z |-> 0, xs |-> <<>>, name |-> "", params |-> <<>>, lit |-> "", num |-> 0, line |-> 4],
      [k |-> "Function", x |-> 0, y |-> 0, z |-> 0, xs |-> <<623>>, name |-> "m", params |-> <<>>, lit |-> "", num |-> 0, line |-> 4],
      [k |-> "Literal", x |-> 0, y |-> 0, z |-> 0, xs |-> <<>>, name |-> "", params |-> <<>>, lit |-> "true", num |-> 0, line |-> 4],
      [k |-> "Literal", x |-> 0, y |-> 0, z |-> 0, xs |-> <<>>, name |-> "", params |-> <<>>, lit |-> "number", num |-> 7, line |-> 4],
      [k |-> "Return", x |-> 626, y |-> 0, z |-> 0, xs |-> <<>>, name |-> "", params |-> <<>>, lit |-> "", num |-> 0, line |-> 4],
      [k |-> "While", x |-> 625, y |-> 627, z |-> 0, xs |-> <<>>, name |-> "", params |-> <<>>, lit |-> "", num |-> 0, line |-> 4],
      [k |-> "Function", x |-> 0, y |-> 0, z |-> 0, xs |-> <<628>>, name |-> "init", params |-> <<>>, lit |-> "", num |-> 0, line |-> 4],
      [k |-> "Class", x |-> 0, y |-> 0, z |-> 0, xs |-> <<629, 624>>, name |-> "E", params |-> <<>>, lit |-> "", num |-> 0, line |-> 4],
      [k |-> "Literal", x |-> 0, y |-> 0, z |-> 0, xs |-> <<>>, name |-> "", params |-> <<>>, lit |-> "number", num |-> 8, line |-> 4],
      [k |-> "Return", x |-> 631, y |-> 0, z |-> 0, xs |-> <<>>, name |-> "", params |-> <<>>, lit |-> "", num |-> 0, line |-> 4],
      [k |-> "Function", x |-> 0, y |-> 0, z |-> 0, xs |-> <<621, 630, 632>>, name |-> "init", params |-> <<>>, lit |-> "", num |-> 0, line |-> 4],
      [k |-> "Class", x |-> 0, y |-> 0, z |-> 0, xs |-> <<633>>, name |-> "D", params |-> <<>>, lit |-> "", num |-> 0, line |-> 4],
      [k |-> "Variable", x |-> 0, y |-> 0, z |-> 0, xs |-> <<>>, name |-> "init", params |-> <<>>, lit |-> "", num |-> 0, line |-> 5],
      [k |-> "Call", x |-> 635, y |-> 0, z |-> 0, xs |-> <<>>, name |-> "", params |-> <<>>, lit |-> "", num |-> 0, line |-> 5],
      [k |-> "Print", x |-> 636, y |-> 0, z |-> 0, xs |-> <<>>, name |-> "", params |-> <<>>, lit |-> "", num |-> 0, line |-> 5],
      [k |-> "Variable", x |-> 0, y |-> 0, z |-> 0, xs |-> <<>>, name |-> "C", params |-> <<>>, lit |-> "", num |-> 0, line |-> 5],
      [k |-> "Call", x |-> 638, y |-> 0, z |-> 0, xs |-> <<>>, name |-> "", params |-> <<>>, lit |-> "", num |-> 0, line |-> 5],
      [k |-> "Get", x |-> 639, y |-> 0, z |-> 0, xs |-> <<>>, name |-> "m", params |-> <<>>, lit |-> "", num |-> 0, line |-> 5],
      [k |-> "Call", x |-> 640, y |-> 0, z |-> 0, xs |-> <<>>, name |-> "", params |-> <<>>, lit |-> "", num |-> 0, line |-> 5],
      [k |-> "Print", x |-> 641, y |-> 0, z |-> 0, xs |-> <<>>, name |-> "", params |-> <<>>, lit |-> "", num |-> 0, line |-> 5],
      [k |-> "Variable", x |-> 0, y |-> 0, z |-> 0, xs |-> <<>>, name |-> "B", params |-> <<>>, lit |-> "", num |-> 0, line |-> 5],
      [k |-> "Call", x |-> 643, y |-> 0, z |-> 0, xs |-> <<>>, name |-> "", params |-> <<>>, lit |-> "", num |-> 0, line |-> 5],
      [k |-> "Print", x |-> 644, y |-> 0, z |-> 0, xs |-> <<>>, name |-> "", params |-> <<>>, lit |-> "", num |-> 0, line |-> 5],
      [k |-> "This", x |-> 0, y |-> 0, z |-> 0, xs |-> <<>>, name |-> "", params |-> <<>>, lit |-> "", num |-> 0, line |-> 0],
      [k |-> "Print", x |-> 646, y |-> 0, z |-> 0, xs |-> <<>>, name |-> "", params |-> <<>>, lit |-> "", num |-> 0, line |-> 0],
      [k |-> "This", x |-> 0, y |-> 0, z |-> 0, xs |-> <<>>, name |-> "", params |-> <<>>, lit |-> "", num |-> 0, line |-> 1],
      [k |-> "Return", x |-> 648, y |-> 0, z |-> 0, xs |-> <<>>, name |-> "", params |-> <<>>, lit |-> "", num |-> 0, line |-> 1],
      [k |-> "Function", x |-> 0, y |-> 0, z |-> 0, xs |-> <<649>>, name |-> "f", params |-> <<>>, lit |-> "", num |-> 0, line |-> 1],
      [k |-> "Super", x |-> 0, y |-> 0, z |-> 0, xs |-> <<>>, name |-> "m", params |-> <<>>, lit |-> "", num |-> 0, line |-> 2],
      [k |-> "Print", x |-> 651, y |-> 0, z |-> 0, xs |-> <<>>, name |-> "", params |-> <<>>, lit |-> "", num |-> 0, line |-> 2],
      [k |-> "Super", x |-> 0, y |-> 0, z |-> 0, xs |-> <<>>, name |-> "m", params |-> <<>>, lit |-> "", num |-> 0, line |-> 3],
      [k |-> "Return", x |-> 653, y |-> 0, z |-> 0, xs |-> <<>>, name |-> "", params |-> <<>>, lit |-> "", num |-> 0, line |-> 3],
      [k |-> "Function", x |-> 0, y |-> 0, z |-> 0, xs |-> <<654>>, name |-> "m", params |-> <<>>, lit |-> "", num |-> 0, line |-> 3],
      [k |-> "Class", x |-> 0, y |-> 0, z |-> 0, xs |-> <<655>>, name |-> "A", params |-> <<>>, lit |-> "", num |-> 0, line |-> 3],
      [k |-> "Variable", x |-> 0, y |-> 0, z |-> 0, xs |-> <<>>, name |-> "A", params |-> <<>>, lit |-> "", num |-> 0, line |-> 4],
      [k |-> "Super", x |-> 0, y |-> 0, z |-> 0, xs |-> <<>>, name |-> "n", params |-> <<>>, lit |-> "", num |-> 0, line |-> 4],
      [k |-> "Return", x |-> 658, y |-> 0, z |-> 0, xs |-> <<>>, name |-> "", params |-> <<>>, lit |-> "", num |-> 0, line |-> 4],
      [k |-> "Function", x |-> 0, y |-> 0, z |-> 0, xs |-> <<659>>, name |-> "n", params |-> <<>>, lit |-> "", num |-> 0, line |-> 4],
      [k |-> "Class", x |-> 0, y |-> 0, z |-> 0, xs |-> <<660>>, name |-> "C", params |-> <<>>, lit |-> "", num |-> 0, line |-> 4],
      [k |-> "Super", x |-> 0, y |-> 0, z |-> 0, xs |-> <<>>, name |-> "m", params |-> <<>>, lit |-> "", num |-> 0, line |-> 4],
      [k |-> "Return", x |-> 662, y |-> 0, z |-> 0, xs |-> <<>>, name |-> "", params |-> <<>>, lit |-> "", num |-> 0, line |-> 4],
      [k |-> "Function", x |-> 0, y |-> 0, z |-> 0, xs |-> <<661, 663>>, name |-> "m", params |-> <<>>, lit |-> "", num |-> 0, line |-> 4],
      [k |-> "Class", x |-> 657, y |-> 0, z |-> 0, xs |-> <<664>>, name |-> "B", params |-> <<>>, lit |-> "", num |-> 0, line |-> 4],
      [k |-> "Variable", x |-> 0, y |-> 0, z |-> 0, xs |-> <<>>, name |-> "D", params |-> <<>>, lit |-> "", num |-> 0, line |-> 5],
      [k |-> "Super", x |-> 0, y |-> 0, z |-> 0, xs |-> <<>>, name |-> "m", params |-> <<>>, lit |-> "", num |-> 0, line |-> 5],
      [k |-> "Return", x |-> 667, y |-> 0, z |-> 0, xs |-> <<>>, name |-> "", params |-> <<>>, lit |-> "", num |-> 0, line |-> 5],
      [k |-> "Function", x |-> 0, y |-> 0, z |-> 0, xs |-> <<668>>, name |-> "n", params |-> <<>>, lit |-> "", num |-> 0, line |-> 5],
      [k |-> "Class", x |-> 666, y |-> 0, z |-> 0, xs |-> <<669>>, name |-> "E", params |-> <<>>, lit |-> "", num |-> 0, line |-> 5],
      [k |-> "Super", x |-> 0, y |-> 0, z |-> 0, xs |-> <<>>, name |-> "m", params |-> <<>>, lit |-> "", num |-> 0, line |-> 5],
      [k |-> "Return", x |-> 671, y |-> 0, z |-> 0, xs |-> <<>>, name |-> "", params |-> <<>>, lit |-> "", num |-> 0, line |-> 5],
      [k |-> "Function", x |-> 0, y |-> 0, z |-> 0, xs |-> <<670, 672>>, name |-> "m", params |-> <<>>, lit |-> "", num |-> 0, line |-> 5],
      [k |-> "Class", x |-> 0, y |-> 0, z |-> 0, xs |-> <<673>>, name |-> "D", params |-> <<>>, lit |-> "", num |-> 0, line |-> 5],
      [k |-> "Variable", x |-> 0, y |-> 0, z |-> 0, xs |-> <<>>, name |-> "D", params |-> <<>>, lit |-> "", num |-> 0, line |-> 6],
      [k |-> "This", x |-> 0, y |-> 0, z |-> 0, xs |-> <<>>, name |-> "", params |-> <<>>, lit |-> "", num |-> 0, line |-> 6],
      [k |-> "Return", x |-> 676, y |-> 0, z |-> 0, xs |-> <<>>, name |-> "", params |-> <<>>, lit |-> "", num |-> 0, line |-> 6],
      [k |-> "Function", x |-> 0, y |-> 0, z |-> 0, xs |-> <<677>>, name |-> "g", params |-> <<>>, lit |-> "", num |-> 0, line |-> 6],
      [k |-> "Super", x |-> 0, y |-> 0, z |-> 0, xs |-> <<>>, name |-> "m", params |-> <<>>, lit |-> "", num |-> 0, line |-> 6],
      [k |-> "Return", x |-> 679, y |-> 0, z |-> 0, xs |-> <<>>, name |-> "", params |-> <<>>, lit |-> "", num |-> 0, line |-> 6],
      [k |-> "Function", x |-> 0, y |-> 0, z |-> 0, xs |-> <<678, 680>>, name |-> "m", params |-> <<>>, lit |-> "", num |-> 0, line |-> 6],
      [k |-> "Class", x |-> 675, y |-> 0, z |-> 0, xs |-> <<681>>, name |-> "F", params |-> <<>>, lit |-> "", num |-> 0, line |-> 6],
      [k |-> "This", x |-> 0, y |-> 0, z |-> 0, xs |-> <<>>, name |-> "", params |-> <<>>, lit |-> "", num |-> 0, line |-> 6],
      [k |-> "Print", x |-> 683, y |-> 0, z |-> 0, xs |-> <<>>, name |-> "", params |-> <<>>, lit |-> "", num |-> 0, line |-> 6],
      [k |-> "This", x |-> 0, y |-> 0, z |-> 0, xs |-> <<>>, name |-> "", params |-> <<>>, lit |-> "", num |-> 0, line |-> 7],
      [k |-> "Return", x |-> 685, y |-> 0, z |-> 0, xs |-> <<>>, name |-> "", params |-> <<>>, lit |-> "", num |-> 0, line |-> 7],
      [k |-> "Function", x |-> 0, y |-> 0, z |-> 0, xs |-> <<686>>, name |-> "g", params |-> <<>>, lit |-> "", num |-> 0, line |-> 7],
      [k |-> "Variable", x |-> 0, y |-> 0, z |-> 0, xs |-> <<>>, name |-> "g", params |-> <<>>, lit |-> "", num |-> 0, line |-> 7],
      [k |-> "Return", x |-> 688, y |-> 0, z |-> 0, xs |-> <<>>, name |-> "", params |-> <<>>, lit |-> "", num |-> 0, line |-> 7],
      [k |-> "Function", x |-> 0, y |-> 0, z |-> 0, xs |-> <<687, 689>>, name |-> "m", params |-> <<>>, lit |-> "", num |-> 0, line |-> 7],
      [k |-> "Class", x |-> 0, y |-> 0, z |-> 0, xs |-> <<690>>, name |-> "G", params |-> <<>>, lit |-> "", num |-> 0, line |-> 7],
      [k |-> "Variable", x |-> 0, y |-> 0, z |-> 0, xs |-> <<>>, name |-> "G", params |-> <<>>, lit |-> "", num |-> 0, line |-> 7],
      [k |-> "Call", x |-> 692, y |-> 0, z |-> 0, xs |-> <<>>, name |-> "", params |-> <<>>, lit |-> "", num |-> 0, line |-> 7],
      [k |-> "Get", x |-> 693, y |-> 0, z |-> 0, xs |-> <<>>, name |-> "m", params |-> <<>>, lit |-> "", num |-> 0, line |-> 7],
      [k |-> "Call", x |-> 694, y |-> 0, z |-> 0, xs |-> <<>>, name |-> "", params |-> <<>>, lit |-> "", num |-> 0, line |-> 7],
      [k |-> "Call", x |-> 695, y |-> 0, z |-> 0, xs |-> <<>>, name |-> "", params |-> <<>>, lit |-> "", num |-> 0, line |-> 7],
      [k |-> "Print", x |-> 696, y |-> 0, z |-> 0, xs |-> <<>>, name |-> "", params |-> <<>>, lit |-> "", num |-> 0, line |-> 7],
      [k |-> "Variable", x |-> 0, y |-> 0, z |-> 0, xs |-> <<>>, name |-> "a", params |-> <<>>, lit |-> "", num |-> 0, line |-> 0],
      [k |-> "Var", x |-> 698, y |-> 0, z |-> 0, xs |-> <<>>, name |-> "a", params |-> <<>>, lit |-> "", num |-> 0, line |-> 0],
      [k |-> "Block", x |-> 0, y |-> 0, z |-> 0, xs |-> <<699>>, name |-> "", params |-> <<>>, lit |-> "", num |-> 0, line |-> 0],
      [k |-> "Literal", x |-> 0, y |-> 0, z |-> 0, xs |-> <<>>, name |-> "", params |-> <<>>, lit |-> "number", num |-> 1, line |-> 1],
      [k |-> "Var", x |-> 701, y |-> 0, z |-> 0, xs |-> <<>>, name |-> "a", params |-> <<>>, lit |-> "", num |-> 0, line |-> 1],
      [k |-> "Variable", x |-> 0, y |-> 0, z |-> 0, xs |-> <<>>, name |-> "a", params |-> <<>>, lit |-> "", num |-> 0, line |-> 1],
      [k |-> "Literal", x |-> 0, y |-> 0, z |-> 0, xs |-> <<>>, name |-> "", params |-> <<>>, lit |-> "number", num |-> 1, line |-> 1],
      [k |-> "Binary", x |-> 703, y |-> 704, z |-> 0, xs |-> <<>>, name |-> "+", params |-> <<>>, lit |-> "", num |-> 0, line |-> 1],
      [k |-> "Var", x |-> 705, y |-> 0, z |-> 0, xs |-> <<>>, name |-> "a", params |-> <<>>, lit |-> "", num |-> 0, line |-> 1],
      [k |-> "Block", x |-> 0, y |-> 0, z |-> 0, xs |-> <<706>>, name |-> "", params |-> <<>>, lit |-> "", num |-> 0, line |-> 1],
      [k |-> "Block", x |-> 0, y |-> 0, z |-> 0, xs |-> <<702, 707>>, name |-> "", params |-> <<>>, lit |-> "", num |-> 0, line |-> 1],
      [k |-> "Variable", x |-> 0, y |-> 0, z |-> 0, xs |-> <<>>, name |-> "c", params |-> <<>>, lit |-> "", num |-> 0, line |-> 2],
      [k |-> "Unary", x |-> 709, y |-> 0, z |-> 0, xs |-> <<>>, name |-> "-", params |-> <<>>, lit |-> "", num |-> 0, line |-> 2],
      [k |-> "Var", x |-> 710, y |-> 0, z |-> 0, xs |-> <<>>, name |-> "c", params |-> <<>>, lit |-> "", num |-> 0, line |-> 2],
      [k |-> "Variable", x |-> 0, y |-> 0, z |-> 0, xs |-> <<>>, name |-> "b", params |-> <<>>, lit |-> "", num |-> 0, line |-> 2],
      [k |-> "Print", x |-> 712, y |-> 0, z |-> 0, xs |-> <<>>, name |-> "", params |-> <<>>, lit |-> "", num |-> 0, line |-> 2],
      [k |-> "Function", x |-> 0, y |-> 0, z |-> 0, xs |-> <<711, 713>>, name |-> "f", params |-> <<"b">>, lit |-> "", num |-> 0, line |-> 2],
      [k |-> "Literal", x |-> 0, y |-> 0, z |-> 0, xs |-> <<>>, name |-> "", params |-> <<>>, lit |-> "number", num |-> 1, line |-> 3],
      [k |-> "Var", x |-> 715, y |-> 0, z |-> 0, xs |-> <<>>, name |-> "d", params |-> <<>>, lit |-> "", num |-> 0, line |-> 3],
      [k |-> "Variable", x |-> 0, y |-> 0, z |-> 0, xs |-> <<>>, name |-> "d", params |-> <<>>, lit |-> "", num |-> 0, line |-> 3],
      [k |-> "Var", x |-> 717, y |-> 0, z |-> 0, xs |-> <<>>, name |-> "e", params |-> <<>>, lit |-> "", num |-> 0, line |-> 3],
      [k |-> "Variable", x |-> 0, y |-> 0, z |-> 0, xs |-> <<>>, name |-> "e", params |-> <<>>, lit |-> "", num |-> 0, line |-> 3],
      [k |-> "Print", x |-> 719, y |-> 0, z |-> 0, xs |-> <<>>, name |-> "", params |-> <<>>, lit |-> "", num |-> 0, line |-> 3],
      [k |-> "Block", x |-> 0, y |-> 0, z |-> 0, xs |-> <<718, 720>>, name |-> "", params |-> <<>>, lit |-> "", num |-> 0, line |-> 3],
      [k |-> "Block", x |-> 0, y |-> 0, z |-> 0, xs |-> <<716, 721>>, name |-> "", params |-> <<>>, lit |-> "", num |-> 0, line |-> 3],
      [k |-> "Literal", x |-> 0, y |-> 0, z |-> 0, xs |-> <<>>, name |-> "", params |-> <<>>, lit |-> "number", num |-> 1, line |-> 4],
      [k |-> "Var", x |-> 723, y |-> 0, z |-> 0, xs |-> <<>>, name |-> "g", params |-> <<>>, lit |-> "", num |-> 0, line |-> 4],
      [k |-> "Variable", x |-> 0, y |-> 0, z |-> 0, xs |-> <<>>, name |-> "g", params |-> <<>>, lit |-> "", num |-> 0, line |-> 4],
      [k |-> "Literal", x |-> 0, y |-> 0, z |-> 0, xs |-> <<>>, name |-> "", params |-> <<>>, lit |-> "number", num |-> 2, line |-> 4],
      [k |-> "Assign", x |-> 726, y |-> 0, z |-> 0, xs |-> <<>>, name |-> "g", params |-> <<>>, lit |-> "", num |-> 0, line |-> 4],
      [k |-> "Grouping", x |-> 727, y |-> 0, z |-> 0, xs |-> <<>>, name |-> "", params |-> <<>>, lit |-> "", num |-> 0, line |-> 4],
      [k |-> "Var", x |-> 728, y |-> 0, z |-> 0, xs |-> <<>>, name |-> "g", params |-> <<>>, lit |-> "", num |-> 0, line |-> 4],
      [k |-> "Variable", x |-> 0, y |-> 0, z |-> 0, xs |-> <<>>, name |-> "g", params |-> <<>>, lit |-> "", num |-> 0, line |-> 4],
      [k |-> "Print", x |-> 730, y |-> 0, z |-> 0, xs |-> <<>>, name |-> "", params |-> <<>>, lit |-> "", num |-> 0, line |-> 4],
      [k |-> "Block", x |-> 0, y |-> 0, z |-> 0, xs |-> <<729, 731>>, name |-> "", params |-> <<>>, lit |-> "", num |-> 0, line |-> 4],
      [k |-> "Variable", x |-> 0, y |-> 0, z |-> 0, xs |-> <<>>, name |-> "g", params |-> <<>>, lit |-> "", num |-> 0, line |-> 4],
      [k |-> "Print", x |-> 733, y |-> 0, z |-> 0, xs |-> <<>>, name |-> "", params |-> <<>>, lit |-> "", num |-> 0, line |-> 4],
      [k |-> "Block", x |-> 0, y |-> 0, z |-> 0, xs |-> <<724, 732, 734>>, name |-> "", params |-> <<>>, lit |-> "", num |-> 0, line |-> 4],
      [k |-> "Variable", x |-> 0, y |-> 0, z |-> 0, xs |-> <<>>, name |-> "u", params |-> <<>>, lit |-> "", num |-> 0, line |-> 0],
      [k |-> "Print", x |-> 736, y |-> 0, z |-> 0, xs |-> <<>>, name |-> "", params |-> <<>>, lit |-> "", num |-> 0, line |-> 0],
      [k |-> "Variable", x |-> 0, y |-> 0, z |-> 0, xs |-> <<>>, name |-> "u", params |-> <<>>, lit |-> "", num |-> 0, line |-> 1],
      [k |-> "Literal", x |-> 0, y |-> 0, z |-> 0, xs |-> <<>>, name |-> "", params |-> <<>>, lit |-> "number", num |-> 1, line |-> 1],
      [k |-> "Assign", x |-> 739, y |-> 0, z |-> 0, xs |-> <<>>, name |-> "u", params |-> <<>>, lit |-> "", num |-> 0, line |-> 1],
      [k |-> "Expression", x |-> 740, y |-> 0, z |-> 0, xs |-> <<>>, name |-> "", params |-> <<>>, lit |-> "", num |-> 0, line |-> 1],
      [k |-> "Literal", x |-> 0, y |-> 0, z |-> 0, xs |-> <<>>, name |-> "", params |-> <<>>, lit |-> "number", num |-> 1, line |-> 2],
      [k |-> "Var", x |-> 742, y |-> 0, z |-> 0, xs |-> <<>>, name |-> "a", params |-> <<>>, lit |-> "", num |-> 0, line |-> 2],
      [k |-> "Variable", x |-> 0, y |-> 0, z |-> 0, xs |-> <<>>, name |-> "a", params |-> <<>>, lit |-> "", num |-> 0, line |-> 2],
      [k |-> "Literal", x |-> 0, y |-> 0, z |-> 0, xs |-> <<>>, name |-> "", params |-> <<>>, lit |-> "number", num |-> 2, line |-> 2],
      [k |-> "Assign", x |-> 745, y |-> 0, z |-> 0, xs |-> <<>>, name |-> "a", params |-> <<>>, lit |-> "", num |-> 0, line |-> 2],
      [k |-> "Expression", x |-> 746, y |-> 0, z |-> 0, xs |-> <<>>, name |-> "", params |-> <<>>, lit |-> "", num |-> 0, line |-> 2],
      [k |-> "Variable", x |-> 0, y |-> 0, z |-> 0, xs |-> <<>>, name |-> "a", params |-> <<>>, lit |-> "", num |-> 0, line |-> 2],
      [k |-> "Print", x |-> 748, y |-> 0, z |-> 0, xs |-> <<>>, name |-> "", params |-> <<>>, lit |-> "", num |-> 0, line |-> 2],
      [k |-> "Literal", x |-> 0, y |-> 0, z |-> 0, xs |-> <<>>, name |-> "", params |-> <<>>, lit |-> "number", num |-> 3, line |-> 3],
      [k |-> "Var", x |-> 750, y |-> 0, z |-> 0, xs |-> <<>>, name |-> "a", params |-> <<>>, lit |-> "", num |-> 0, line |-> 3],
      [k |-> "Variable", x |-> 0, y |-> 0, z |-> 0, xs |-> <<>>, name |-> "a", params |-> <<>>, lit |-> "", num |-> 0, line |-> 3],
      [k |-> "Print", x |-> 752, y |-> 0, z |-> 0, xs |-> <<>>, name |-> "", params |-> <<>>, lit |-> "", num |-> 0, line |-> 3],
      [k |-> "Var", x |-> 0, y |-> 0, z |-> 0, xs |-> <<>>, name |-> "b", params |-> <<>>, lit |-> "", num |-> 0, line |-> 4],
      [k |-> "Variable", x |-> 0, y |-> 0, z |-> 0, xs |-> <<>>, name |-> "b", params |-> <<>>, lit |-> "", num |-> 0, line |-> 4],
      [k |-> "Print", x |-> 755, y |-> 0, z |-> 0, xs |-> <<>>, name |-> "", params |-> <<>>, lit |-> "", num |-> 0, line |-> 4],
      [k |-> "Variable", x |-> 0, y |-> 0, z |-> 0, xs |-> <<>>, name |-> "b", params |-> <<>>, lit |-> "", num |-> 0, line |-> 4],
      [k |-> "Variable", x |-> 0, y |-> 0, z |-> 0, xs |-> <<>>, name |-> "a", params |-> <<>>, lit |-> "", num |-> 0, line |-> 4],
      [k |-> "Assign", x |-> 758, y |-> 0, z |-> 0, xs |-> <<>>, name |-> "b", params |-> <<>>, lit |-> "", num |-> 0, line |-> 4],
      [k |-> "Expression", x |-> 759, y |-> 0, z |-> 0, xs |-> <<>>, name |-> "", params |-> <<>>, lit |-> "", num |-> 0, line |-> 4],
      [k |-> "Var", x |-> 0, y |-> 0, z |-> 0, xs |-> <<>>, name |-> "a", params |-> <<>>, lit |-> "", num |-> 0, line |-> 4],
      [k |-> "Variable", x |-> 0, y |-> 0, z |-> 0, xs |-> <<>>, name |-> "b", params |-> <<>>, lit |-> "", num |-> 0, line |-> 4],
      [k |-> "Print", x |-> 762, y |-> 0, z |-> 0, xs |-> <<>>, name |-> "", params |-> <<>>, lit |-> "", num |-> 0, line |-> 4],
      [k |-> "Variable", x |-> 0, y |-> 0, z |-> 0, xs |-> <<>>, name |-> "a", params |-> <<>>, lit |-> "", num |-> 0, line |-> 4],
      [k |-> "Print", x |-> 764, y |-> 0, z |-> 0, xs |-> <<>>, name |-> "", params |-> <<>>, lit |-> "", num |-> 0, line |-> 4],
      [k |-> "Variable", x |-> 0, y |-> 0, z |-> 0, xs |-> <<>>, name |-> "u", params |-> <<>>, lit |-> "", num |-> 0, line |-> 5],
      [k |-> "Print", x |-> 766, y |-> 0, z |-> 0, xs |-> <<>>, name |-> "", params |-> <<>>, lit |-> "", num |-> 0, line |-> 5],
      [k |-> "Literal", x |-> 0, y |-> 0, z |-> 0, xs |-> <<>>, name |-> "", params |-> <<>>, lit |-> "number", num |-> 1, line |-> 0],
      [k |-> "Var", x |-> 768, y |-> 0, z |-> 0, xs |-> <<>>, name |-> "gs", params |-> <<>>, lit |-> "", num |-> 0, line |-> 0],
      [k |-> "Variable", x |-> 0, y |-> 0, z |-> 0, xs |-> <<>>, name |-> "gs", params |-> <<>>, lit |-> "", num |-> 0, line |-> 0],
      [k |-> "Print", x |-> 770, y |-> 0, z |-> 0, xs |-> <<>>, name |-> "", params |-> <<>>, lit |-> "", num |-> 0, line |-> 0],
      [k |-> "Variable", x |-> 0, y |-> 0, z |-> 0, xs |-> <<>>, name |-> "wc", params |-> <<>>, lit |-> "", num |-> 0, line |-> 1],
      [k |-> "Print", x |-> 772, y |-> 0, z |-> 0, xs |-> <<>>, name |-> "", params |-> <<>>, lit |-> "", num |-> 0, line |-> 1],
      [k |-> "Variable", x |-> 0, y |-> 0, z |-> 0, xs |-> <<>>, name |-> "wc", params |-> <<>>, lit |-> "", num |-> 0, line |-> 2],
      [k |-> "Literal", x |-> 0, y |-> 0, z |-> 0, xs |-> <<>>, name |-> "", params |-> <<>>, lit |-> "number", num |-> 2, line |-> 2],
      [k |-> "Assign", x |-> 775, y |-> 0, z |-> 0, xs |-> <<>>, name |-> "wc", params |-> <<>>, lit |-> "", num |-> 0, line |-> 2],
      [k |-> "Expression", x |-> 776, y |-> 0, z |-> 0, xs |-> <<>>, name |-> "", params |-> <<>>, lit |-> "", num |-> 0, line |-> 2],
      [k |-> "Literal", x |-> 0, y |-> 0, z |-> 0, xs |-> <<>>, name |-> "", params |-> <<>>, lit |-> "number", num |-> 3, line |-> 3],
      [k |-> "Var", x |-> 778, y |-> 0, z |-> 0, xs |-> <<>>, name |-> "wc", params |-> <<>>, lit |-> "", num |-> 0, line |-> 3],
      [k |-> "Variable", x |-> 0, y |-> 0, z |-> 0, xs |-> <<>>, name |-> "wc", params |-> <<>>, lit |-> "", num |-> 0, line |-> 3],
      [k |-> "Print", x |-> 780, y |-> 0, z |-> 0, xs |-> <<>>, name |-> "", params |-> <<>>, lit |-> "", num |-> 0, line |-> 3],
      [k |-> "Variable", x |-> 0, y |-> 0, z |-> 0, xs |-> <<>>, name |-> "gs", params |-> <<>>, lit |-> "", num |-> 0, line |-> 3],
      [k |-> "Print", x |-> 782, y |-> 0, z |-> 0, xs |-> <<>>, name |-> "", params |-> <<>>, lit |-> "", num |-> 0, line |-> 3],
      [k |-> "Class", x |-> 0, y |-> 0, z |-> 0, xs |-> <<>>, name |-> "A", params |-> <<>>, lit |-> "", num |-> 0, line |-> 0],
      [k |-> "Variable", x |-> 0, y |-> 0, z |-> 0, xs |-> <<>>, name |-> "A", params |-> <<>>, lit |-> "", num |-> 0, line |-> 0],
      [k |-> "Call", x |-> 785, y |-> 0, z |-> 0, xs |-> <<>>, name |-> "", params |-> <<>>, lit |-> "", num |-> 0, line |-> 0],
      [k |-> "Var", x |-> 786, y |-> 0, z |-> 0, xs |-> <<>>, name |-> "a", params |-> <<>>, lit |-> "", num |-> 0, line |-> 0],
      [k |-> "Variable", x |-> 0, y |-> 0, z |-> 0, xs |-> <<>>, name |-> "a", params |-> <<>>, lit |-> "", num |-> 0, line |-> 0],
      [k |-> "Get", x |-> 788, y |-> 0, z |-> 0, xs |-> <<>>, name |-> "p", params |-> <<>>, lit |-> "", num |-> 0, line |-> 0],
      [k |-> "Literal", x |-> 0, y |-> 0, z |-> 0, xs |-> <<>>, name |-> "", params |-> <<>>, lit |-> "number", num |-> 1, line |-> 0],
      [k |-> "Set", x |-> 788, y |-> 790, z |-> 0, xs |-> <<>>, name |-> "p", params |-> <<>>, lit |-> "", num |-> 0, line |-> 0],
      [k |-> "Expression", x |-> 791, y |-> 0, z |-> 0, xs |-> <<>>, name |-> "", params |-> <<>>, lit |-> "", num |-> 0, line |-> 0],
      [k |-> "Variable", x |-> 0, y |-> 0, z |-> 0, xs |-> <<>>, name |-> "a", params |-> <<>>, lit |-> "", num |-> 0, line |-> 0],
      [k |-> "Get", x |-> 793, y |-> 0, z |-> 0, xs |-> <<>>, name |-> "q", params |-> <<>>, lit |-> "", num |-> 0, line |-> 0],
      [k |-> "Literal", x |-> 0, y |-> 0, z |-> 0, xs |-> <<>>, name |-> "", params |-> <<>>, lit |-> "number", num |-> 2, line |-> 0],
      [k |-> "Set", x |-> 793, y |-> 795, z |-> 0, xs |-> <<>>, name |-> "q", params |-> <<>>, lit |-> "", num |-> 0, line |-> 0],
      [k |-> "Expression", x |-> 796, y |-> 0, z |-> 0, xs |-> <<>>, name |-> "", params |-> <<>>, lit |-> "", num |-> 0, line |-> 0],
      [k |-> "Variable", x |-> 0, y |-> 0, z |-> 0, xs |-> <<>>, name |-> "a", params |-> <<>>, lit |-> "", num |-> 0, line |-> 0],
      [k |-> "Get", x |-> 798, y |-> 0, z |-> 0, xs |-> <<>>, name |-> "p", params |-> <<>>, lit |-> "", num |-> 0, line |-> 0],
      [k |-> "Literal", x |-> 0, y |-> 0, z |-> 0, xs |-> <<>>, name |-> "", params |-> <<>>, lit |-> "number", num |-> 3, line |-> 0],
      [k |-> "Set", x |-> 798, y |-> 800, z |-> 0, xs |-> <<>>, name |-> "p", params |-> <<>>, lit |-> "", num |-> 0, line |-> 0],
      [k |-> "Expression", x |-> 801, y |-> 0, z |-> 0, xs |-> <<>>, name |-> "", params |-> <<>>, lit |-> "", num |-> 0, line |-> 0],
      [k |-> "Variable", x |-> 0, y |-> 0, z |-> 0, xs |-> <<>>, name |-> "a", params |-> <<>>, lit |-> "", num |-> 0, line |-> 0],
      [k |-> "Get", x |-> 803, y |-> 0, z |-> 0, xs |-> <<>>, name |-> "r", params |-> <<>>, lit |-> "", num |-> 0, line |-> 0],
      [k |-> "Variable", x |-> 0, y |-> 0, z |-> 0, xs |-> <<>>, name |-> "a", params |-> <<>>, lit |-> "", num |-> 0, line |-> 0],
      [k |-> "Get", x |-> 805, y |-> 0, z |-> 0, xs |-> <<>>, name |-> "p", params |-> <<>>, lit |-> "", num |-> 0, line |-> 0],
      [k |-> "Set", x |-> 803, y |-> 806, z |-> 0, xs |-> <<>>, name |-> "r", params |-> <<>>, lit |-> "", num |-> 0, line |-> 0],
      [k |-> "Expression", x |-> 807, y |-> 0, z |-> 0, xs |-> <<>>, name |-> "", params |-> <<>>, lit |-> "", num |-> 0, line |-> 0],
      [k |-> "Variable", x |-> 0, y |-> 0, z |-> 0, xs |-> <<>>, name |-> "a", params |-> <<>>, lit |-> "", num |-> 0, line |-> 0],
      [k |-> "Get", x |-> 809, y |-> 0, z |-> 0, xs |-> <<>>, name |-> "r", params |-> <<>>, lit |-> "", num |-> 0, line |-> 0],
      [k |-> "Print", x |-> 810, y |-> 0, z |-> 0, xs |-> <<>>, name |-> "", params |-> <<>>, lit |-> "", num |-> 0, line |-> 0],
      [k |-> "Variable", x |-> 0, y |-> 0, z |-> 0, xs |-> <<>>, name |-> "a", params |-> <<>>, lit |-> "", num |-> 0, line |-> 1],
      [k |-> "Get", x |-> 812, y |-> 0, z |-> 0, xs |-> <<>>, name |-> "q", params |-> <<>>, lit |-> "", num |-> 0, line |-> 1],
      [k |-> "Literal", x |-> 0, y |-> 0, z |-> 0, xs |-> <<>>, name |-> "", params |-> <<>>, lit |-> "number", num |-> 4, line |-> 1],
      [k |-> "Set", x |-> 812, y |-> 814, z |-> 0, xs |-> <<>>, name |-> "q", params |-> <<>>, lit |-> "", num |-> 0, line |-> 1],
      [k |-> "Expression", x |-> 815, y |-> 0, z |-> 0, xs |-> <<>>, name |-> "", params |-> <<>>, lit |-> "", num |-> 0, line |-> 1],
      [k |-> "Variable", x |-> 0, y |-> 0, z |-> 0, xs |-> <<>>, name |-> "a", params |-> <<>>, lit |-> "", num |-> 0, line |-> 1],
      [k |-> "Get", x |-> 817, y |-> 0, z |-> 0, xs |-> <<>>, name |-> "s", params |-> <<>>, lit |-> "", num |-> 0, line |-> 1],
      [k |-> "Literal", x |-> 0, y |-> 0, z |-> 0, xs |-> <<>>, name |-> "", params |-> <<>>, lit |-> "number", num |-> 5, line |-> 1],
      [k |-> "Set", x |-> 817, y |-> 819, z |-> 0, xs |-> <<>>, name |-> "s", params |-> <<>>, lit |-> "", num |-> 0, line |-> 1],
      [k |-> "Expression", x |-> 820, y |-> 0, z |-> 0, xs |-> <<>>, name |-> "", params |-> <<>>, lit |-> "", num |-> 0, line |-> 1],
      [k |-> "Variable", x |-> 0, y |-> 0, z |-> 0, xs |-> <<>>, name |-> "a", params |-> <<>>, lit |-> "", num |-> 0, line |-> 1],
      [k |-> "Get", x |-> 822, y |-> 0, z |-> 0, xs |-> <<>>, name |-> "s", params |-> <<>>, lit |-> "", num |-> 0, line |-> 1],
      [k |-> "Print", x |-> 823, y |-> 0, z |-> 0, xs |-> <<>>, name |-> "", params |-> <<>>, lit |-> "", num |-> 0, line |-> 1],
      [k |-> "Variable", x |-> 0, y |-> 0, z |-> 0, xs |-> <<>>, name |-> "a", params |-> <<>>, lit |-> "", num |-> 0, line |-> 2],
      [k |-> "Get", x |-> 825, y |-> 0, z |-> 0, xs |-> <<>>, name |-> "q", params |-> <<>>, lit |-> "", num |-> 0, line |-> 2],
      [k |-> "Print", x |-> 826, y |-> 0, z |-> 0, xs |-> <<>>, name |-> "", params |-> <<>>, lit |-> "", num |-> 0, line |-> 2],
      [k |-> "Literal", x |-> 0, y |-> 0, z |-> 0, xs |-> <<>>, name |-> "", params |-> <<>>, lit |-> "number", num |-> 1, line |-> 0],
      [k |-> "Var", x |-> 828, y |-> 0, z |-> 0, xs |-> <<>>, name |-> "a", params |-> <<>>, lit |-> "", num |-> 0, line |-> 0],
      [k |-> "Variable", x |-> 0, y |-> 0, z |-> 0, xs |-> <<>>, name |-> "a", params |-> <<>>, lit |-> "", num |-> 0, line |-> 0],
      [k |-> "Print", x |-> 830, y |-> 0, z |-> 0, xs |-> <<>>, name |-> "", params |-> <<>>, lit |-> "", num |-> 0, line |-> 0],
      [k |-> "Variable", x |-> 0, y |-> 0, z |-> 0, xs |-> <<>>, name |-> "quit", params |-> <<>>, lit |-> "", num |-> 0, line |-> 0],
      [k |-> "Call", x |-> 832, y |-> 0, z |-> 0, xs |-> <<>>, name |-> "", params |-> <<>>, lit |-> "", num |-> 0, line |-> 0],
      [k |-> "Expression", x |-> 833, y |-> 0, z |-> 0, xs |-> <<>>, name |-> "", params |-> <<>>, lit |-> "", num |-> 0, line |-> 0],
      [k |-> "Literal", x |-> 0, y |-> 0, z |-> 0, xs |-> <<>>, name |-> "", params |-> <<>>, lit |-> "number", num |-> 2, line |-> 0],
      [k |-> "Print", x |-> 835, y |-> 0, z |-> 0, xs |-> <<>>, name |-> "", params |-> <<>>, lit |-> "", num |-> 0, line |-> 0],
      [k |-> "Variable", x |-> 0, y |-> 0, z |-> 0, xs |-> <<>>, name |-> "a", params |-> <<>>, lit |-> "", num |-> 0, line |-> 0],
      [k |-> "Literal", x |-> 0, y |-> 0, z |-> 0, xs |-> <<>>, name |-> "", params |-> <<>>, lit |-> "number", num |-> 3, line |-> 0],
      [k |-> "Assign", x |-> 838, y |-> 0, z |-> 0, xs |-> <<>>, name |-> "a", params |-> <<>>, lit |-> "", num |-> 0, line |-> 0],
      [k |-> "Expression", x |-> 839, y |-> 0, z |-> 0, xs |-> <<>>, name |-> "", params |-> <<>>, lit |-> "", num |-> 0, line |-> 0],
      [k |-> "Variable", x |-> 0, y |-> 0, z |-> 0, xs |-> <<>>, name |-> "a", params |-> <<>>, lit |-> "", num |-> 0, line |-> 1],
      [k |-> "Print", x |-> 841, y |-> 0, z |-> 0, xs |-> <<>>, name |-> "", params |-> <<>>, lit |-> "", num |-> 0, line |-> 1],
      [k |-> "Variable", x |-> 0, y |-> 0, z |-> 0, xs |-> <<>>, name |-> "clock", params |-> <<>>, lit |-> "", num |-> 0, line |-> 0],
      [k |-> "Call", x |-> 843, y |-> 0, z |-> 0, xs |-> <<>>, name |-> "", params |-> <<>>, lit |-> "", num |-> 0, line |-> 0],
      [k |-> "Literal", x |-> 0, y |-> 0, z |-> 0, xs |-> <<>>, name |-> "", params |-> <<>>, lit |-> "nil", num |-> 0, line |-> 0],
      [k |-> "Binary", x |-> 844, y |-> 845, z |-> 0, xs |-> <<>>, name |-> "==", params |-> <<>>, lit |-> "", num |-> 0, line |-> 0],
      [k |-> "Print", x |-> 846, y |-> 0, z |-> 0, xs |-> <<>>, name |-> "", params |-> <<>>, lit |-> "", num |-> 0, line |-> 0],
      [k |-> "Variable", x |-> 0, y |-> 0, z |-> 0, xs |-> <<>>, name |-> "quit", params |-> <<>>, lit |-> "", num |-> 0, line |-> 1],
      [k |-> "Print", x |-> 848, y |-> 0, z |-> 0, xs |-> <<>>, name |-> "", params |-> <<>>, lit |-> "", num |-> 0, line |-> 1],
      [k |-> "Literal", x |-> 0, y |-> 0, z |-> 0, xs |-> <<>>, name |-> "", params |-> <<>>, lit |-> "number", num |-> 0, line |-> 0],
      [k |-> "Var", x |-> 850, y |-> 0, z |-> 0, xs |-> <<>>, name |-> "n", params |-> <<>>, lit |-> "", num |-> 0, line |-> 0],
      [k |-> "Literal", x |-> 0, y |-> 0, z |-> 0, xs |-> <<>>, name |-> "", params |-> <<>>, lit |-> "number", num |-> 10, line |-> 0],
      [k |-> "Var", x |-> 852, y |-> 0, z |-> 0, xs |-> <<>>, name |-> "k", params |-> <<>>, lit |-> "", num |-> 0, line |-> 0],
      [k |-> "Variable", x |-> 0, y |-> 0, z |-> 0, xs |-> <<>>, name |-> "n", params |-> <<>>, lit |-> "", num |-> 0, line |-> 0],
      [k |-> "Variable", x |-> 0, y |-> 0, z |-> 0, xs |-> <<>>, name |-> "n", params |-> <<>>, lit |-> "", num |-> 0, line |-> 0],
      [k |-> "Literal", x |-> 0, y |-> 0, z |-> 0, xs |-> <<>>, name |-> "", params |-> <<>>, lit |-> "number", num |-> 1, line |-> 0],
      [k |-> "Binary", x |-> 855, y |-> 856, z |-> 0, xs |-> <<>>, name |-> "+", params |-> <<>>, lit |-> "", num |-> 0, line |-> 0],
      [k |-> "Assign", x |-> 857, y |-> 0, z |-> 0, xs |-> <<>>, name |-> "n", params |-> <<>>, lit |-> "", num |-> 0, line |-> 0],
      [k |-> "Expression", x |-> 858, y |-> 0, z |-> 0, xs |-> <<>>, name |-> "", params |-> <<>>, lit |-> "", num |-> 0, line |-> 0],
      [k |-> "Variable", x |-> 0, y |-> 0, z |-> 0, xs |-> <<>>, name |-> "n", params |-> <<>>, lit |-> "", num |-> 0, line |-> 0],
      [k |-> "Variable", x |-> 0, y |-> 0, z |-> 0, xs |-> <<>>, name |-> "k", params |-> <<>>, lit |-> "", num |-> 0, line |-> 0],
      [k |-> "Binary", x |-> 860, y |-> 861, z |-> 0, xs |-> <<>>, name |-> "+", params |-> <<>>, lit |-> "", num |-> 0, line |-> 0],
      [k |-> "Return", x |-> 862, y |-> 0, z |-> 0, xs |-> <<>>, name |-> "", params |-> <<>>, lit |-> "", num |-> 0, line |-> 0],
      [k |-> "Function", x |-> 0, y |-> 0, z |-> 0, xs |-> <<859, 863>>, name |-> "inc", params |-> <<>>, lit |-> "", num |-> 0, line |-> 0],
      [k |-> "Variable", x |-> 0, y |-> 0, z |-> 0, xs |-> <<>>, name |-> "inc", params |-> <<>>, lit |-> "", num |-> 0, line |-> 0],
      [k |-> "Return", x |-> 865, y |-> 0, z |-> 0, xs |-> <<>>, name |-> "", params |-> <<>>, lit |-> "", num |-> 0, line |-> 0],
      [k |-> "Block", x |-> 0, y |-> 0, z |-> 0, xs |-> <<853, 864, 866>>, name |-> "", params |-> <<>>, lit |-> "", num |-> 0, line |-> 0],
      [k |-> "Function", x |-> 0, y |-> 0, z |-> 0, xs |-> <<851, 867>>, name |-> "mk", params |-> <<>>, lit |-> "", num |-> 0, line |-> 0],
      [k |-> "Variable", x |-> 0, y |-> 0, z |-> 0, xs |-> <<>>, name |-> "mk", params |-> <<>>, lit |-> "", num |-> 0, line |-> 1],
      [k |-> "Call", x |-> 869, y |-> 0, z |-> 0, xs |-> <<>>, name |-> "", params |-> <<>>, lit |-> "", num |-> 0, line |-> 1],
      [k |-> "Var", x |-> 870, y |-> 0, z |-> 0, xs |-> <<>>, name |-> "c", params |-> <<>>, lit |-> "", num |-> 0, line |-> 1],
      [k |-> "Variable", x |-> 0, y |-> 0, z |-> 0, xs |-> <<>>, name |-> "c", params |-> <<>>, lit |-> "", num |-> 0, line |-> 1],
      [k |-> "Call", x |-> 872, y |-> 0, z |-> 0, xs |-> <<>>, name |-> "", params |-> <<>>, lit |-> "", num |-> 0, line |-> 1],
      [k |-> "Print", x |-> 873, y |-> 0, z |-> 0, xs |-> <<>>, name |-> "", params |-> <<>>, lit |-> "", num |-> 0, line |-> 1],
      [k |-> "Variable", x |-> 0, y |-> 0, z |-> 0, xs |-> <<>>, name |-> "c", params |-> <<>>, lit |-> "", num |-> 0, line |-> 1],
      [k |-> "Call", x |-> 875, y |-> 0, z |-> 0, xs |-> <<>>, name |-> "", params |-> <<>>, lit |-> "", num |-> 0, line |-> 1],
      [k |-> "Print", x |-> 876, y |-> 0, z |-> 0, xs |-> <<>>, name |-> "", params |-> <<>>, lit |-> "", num |-> 0, line |-> 1],
      [k |-> "Literal", x |-> 0, y |-> 0, z |-> 0, xs |-> <<>>, name |-> "", params |-> <<>>, lit |-> "number", num |-> 1, line |-> 0],
      [k |-> "Var", x |-> 878, y |-> 0, z |-> 0, xs |-> <<>>, name |-> "a", params |-> <<>>, lit |-> "", num |-> 0, line |-> 0],
      [k |-> "Literal", x |-> 0, y |-> 0, z |-> 0, xs |-> <<>>, name |-> "", params |-> <<>>, lit |-> "number", num |-> 2, line |-> 0],
      [k |-> "Var", x |-> 880, y |-> 0, z |-> 0, xs |-> <<>>, name |-> "b", params |-> <<>>, lit |-> "", num |-> 0, line |-> 0],
      [k |-> "Literal", x |-> 0, y |-> 0, z |-> 0, xs |-> <<>>, name |-> "", params |-> <<>>, lit |-> "number", num |-> 3, line |-> 0],
      [k |-> "Var", x |-> 882, y |-> 0, z |-> 0, xs |-> <<>>, name |-> "c", params |-> <<>>, lit |-> "", num |-> 0, line |-> 0],
      [k |-> "Literal", x |-> 0, y |-> 0, z |-> 0, xs |-> <<>>, name |-> "", params |-> <<>>, lit |-> "number", num |-> 4, line |-> 0],
      [k |-> "Var", x |-> 884, y |-> 0, z |-> 0, xs |-> <<>>, name |-> "d", params |-> <<>>, lit |-> "", num |-> 0, line |-> 0],
      [k |-> "Literal", x |-> 0, y |-> 0, z |-> 0, xs |-> <<>>, name |-> "", params |-> <<>>, lit |-> "number", num |-> 5, line |-> 0],
      [k |-> "Var", x |-> 886, y |-> 0, z |-> 0, xs |-> <<>>, name |-> "e", params |-> <<>>, lit |-> "", num |-> 0, line |-> 0],
      [k |-> "Literal", x |-> 0, y |-> 0, z |-> 0, xs |-> <<>>, name |-> "", params |-> <<>>, lit |-> "number", num |-> 6, line |-> 0],
      [k |-> "Var", x |-> 888, y |-> 0, z |-> 0, xs |-> <<>>, name |-> "f", params |-> <<>>, lit |-> "", num |-> 0, line |-> 0],
      [k |-> "Literal", x |-> 0, y |-> 0, z |-> 0, xs |-> <<>>, name |-> "", params |-> <<>>, lit |-> "number", num |-> 7, line |-> 0],
      [k |-> "Var", x |-> 890, y |-> 0, z |-> 0, xs |-> <<>>, name |-> "g", params |-> <<>>, lit |-> "", num |-> 0, line |-> 0],
      [k |-> "Literal", x |-> 0, y |-> 0, z |-> 0, xs |-> <<>>, name |-> "", params |-> <<>>, lit |-> "number", num |-> 8, line |-> 0],
      [k |-> "Var", x |-> 892, y |-> 0, z |-> 0, xs |-> <<>>, name |-> "h", params |-> <<>>, lit |-> "", num |-> 0, line |-> 0],
      [k |-> "Block", x |-> 0, y |-> 0, z |-> 0, xs |-> <<>>, name |-> "", params |-> <<>>, lit |-> "", num |-> 0, line |-> 1],
      [k |-> "Block", x |-> 0, y |-> 0, z |-> 0, xs |-> <<>>, name |-> "", params |-> <<>>, lit |-> "", num |-> 0, line |-> 1],
      [k |-> "Block", x |-> 0, y |-> 0, z |-> 0, xs |-> <<>>, name |-> "", params |-> <<>>, lit |-> "", num |-> 0, line |-> 1],
      [k |-> "Block", x |-> 0, y |-> 0, z |-> 0, xs |-> <<>>, name |-> "", params |-> <<>>, lit |-> "", num |-> 0, line |-> 1],
      [k |-> "Block", x |-> 0, y |-> 0, z |-> 0, xs |-> <<>>, name |-> "", params |-> <<>>, lit |-> "", num |-> 0, line |-> 1],
      [k |-> "Block", x |-> 0, y |-> 0, z |-> 0, xs |-> <<>>, name |-> "", params |-> <<>>, lit |-> "", num |-> 0, line |-> 1],
      [k |-> "Block", x |-> 0, y |-> 0, z |-> 0, xs |-> <<>>, name |-> "", params |-> <<>>, lit |-> "", num |-> 0, line |-> 1],
      [k |-> "Block", x |-> 0, y |-> 0, z |-> 0, xs |-> <<>>, name |-> "", params |-> <<>>, lit |-> "", num |-> 0, line |-> 1],
      [k |-> "Block", x |-> 0, y |-> 0, z |-> 0, xs |-> <<>>, name |-> "", params |-> <<>>, lit |-> "", num |-> 0, line |-> 2],
      [k |-> "Block", x |-> 0, y |-> 0, z |-> 0, xs |-> <<>>, name |-> "", params |-> <<>>, lit |-> "", num |-> 0, line |-> 2],
      [k |-> "Block", x |-> 0, y |-> 0, z |-> 0, xs |-> <<>>, name |-> "", params |-> <<>>, lit |-> "", num |-> 0, line |-> 2],
      [k |-> "Block", x |-> 0, y |-> 0, z |-> 0, xs |-> <<>>, name |-> "", params |-> <<>>, lit |-> "", num |-> 0, line |-> 2],
      [k |-> "Block", x |-> 0, y |-> 0, z |-> 0, xs |-> <<>>, name |-> "", params |-> <<>>, lit |-> "", num |-> 0, line |-> 2],
      [k |-> "Block", x |-> 0, y |-> 0, z |-> 0, xs |-> <<>>, name |-> "", params |-> <<>>, lit |-> "", num |-> 0, line |-> 2],
      [k |-> "Block", x |-> 0, y |-> 0, z |-> 0, xs |-> <<>>, name |-> "", params |-> <<>>, lit |-> "", num |-> 0, line |-> 2],
      [k |-> "Variable", x |-> 0, y |-> 0, z |-> 0, xs |-> <<>>, name |-> "a", params |-> <<>>, lit |-> "", num |-> 0, line |-> 3],
      [k |-> "Print", x |-> 909, y |-> 0, z |-> 0, xs |-> <<>>, name |-> "", params |-> <<>>, lit |-> "", num |-> 0, line |-> 3],
      [k |-> "Literal", x |-> 0, y |-> 0, z |-> 0, xs |-> <<>>, name |-> "", params |-> <<>>, lit |-> "number", num |-> 1, line |-> 0],
      [k |-> "Var", x |-> 911, y |-> 0, z |-> 0, xs |-> <<>>, name |-> "a", params |-> <<>>, lit |-> "", num |-> 0, line |-> 0],
      [k |-> "Variable", x |-> 0, y |-> 0, z |-> 0, xs |-> <<>>, name |-> "a", params |-> <<>>, lit |-> "", num |-> 0, line |-> 0],
      [k |-> "Variable", x |-> 0, y |-> 0, z |-> 0, xs |-> <<>>, name |-> "a", params |-> <<>>, lit |-> "", num |-> 0, line |-> 0],
      [k |-> "Binary", x |-> 913, y |-> 914, z |-> 0, xs |-> <<>>, name |-> "+", params |-> <<>>, lit |-> "", num |-> 0, line |-> 0],
      [k |-> "Variable", x |-> 0, y |-> 0, z |-> 0, xs |-> <<>>, name |-> "a", params |-> <<>>, lit |-> "", num |-> 0, line |-> 0],
      [k |-> "Binary", x |-> 915, y |-> 916, z |-> 0, xs |-> <<>>, name |-> "+", params |-> <<>>, lit |-> "", num |-> 0, line |-> 0],
      [k |-> "Variable", x |-> 0, y |-> 0, z |-> 0, xs |-> <<>>, name |-> "a", params |-> <<>>, lit |-> "", num |-> 0, line |-> 0],
      [k |-> "Binary", x |-> 917, y |-> 918, z |-> 0, xs |-> <<>>, name |-> "+", params |-> <<>>, lit |-> "", num |-> 0, line |-> 0],
      [k |-> "Variable", x |-> 0, y |-> 0, z |-> 0, xs |-> <<>>, name |-> "a", params |-> <<>>, lit |-> "", num |-> 0, line |-> 0],
      [k |-> "Binary", x |-> 919, y |-> 920, z |-> 0, xs |-> <<>>, name |-> "+", params |-> <<>>, lit |-> "", num |-> 0, line |-> 0],
      [k |-> "Variable", x |-> 0, y |-> 0, z |-> 0, xs |-> <<>>, name |-> "a", params |-> <<>>, lit |-> "", num |-> 0, line |-> 0],
      [k |-> "Binary", x |-> 921, y |-> 922, z |-> 0, xs |-> <<>>, name |-> "+", params |-> <<>>, lit |-> "", num |-> 0, line |-> 0],
      [k |-> "Variable", x |-> 0, y |-> 0, z |-> 0, xs |-> <<>>, name |-> "a", params |-> <<>>, lit |-> "", num |-> 0, line |-> 0],
      [k |-> "Binary", x |-> 923, y |-> 924, z |-> 0, xs |-> <<>>, name |-> "+", params |-> <<>>, lit |-> "", num |-> 0, line |-> 0],
      [k |-> "Variable", x |-> 0, y |-> 0, z |-> 0, xs |-> <<>>, name |-> "a", params |-> <<>>, lit |-> "", num |-> 0, line |-> 0],
      [k |-> "Binary", x |-> 925, y |-> 926, z |-> 0, xs |-> <<>>, name |-> "+", params |-> <<>>, lit |-> "", num |-> 0, line |-> 0],
      [k |-> "Print", x |-> 927, y |-> 0, z |-> 0, xs |-> <<>>, name |-> "", params |-> <<>>, lit |-> "", num |-> 0, line |-> 0],
      [k |-> "Block", x |-> 0, y |-> 0, z |-> 0, xs |-> <<912, 928>>, name |-> "", params |-> <<>>, lit |-> "", num |-> 0, line |-> 0],
      [k |-> "Literal", x |-> 0, y |-> 0, z |-> 0, xs |-> <<>>, name |-> "", params |-> <<>>, lit |-> "number", num |-> 2, line |-> 1],
      [k |-> "Var", x |-> 930, y |-> 0, z |-> 0, xs |-> <<>>, name |-> "b", params |-> <<>>, lit |-> "", num |-> 0, line |-> 1],
      [k |-> "Variable", x |-> 0, y |-> 0, z |-> 0, xs |-> <<>>, name |-> "b", params |-> <<>>, lit |-> "", num |-> 0, line |-> 1],
      [k |-> "Variable", x |-> 0, y |-> 0, z |-> 0, xs |-> <<>>, name |-> "b", params |-> <<>>, lit |-> "", num |-> 0, line |-> 1],
      [k |-> "Binary", x |-> 932, y |-> 933, z |-> 0, xs |-> <<>>, name |-> "+", params |-> <<>>, lit |-> "", num |-> 0, line |-> 1],
      [k |-> "Variable", x |-> 0, y |-> 0, z |-> 0, xs |-> <<>>, name |-> "b", params |-> <<>>, lit |-> "", num |-> 0, line |-> 1],
      [k |-> "Binary", x |-> 934, y |-> 935, z |-> 0, xs |-> <<>>, name |-> "+", params |-> <<>>, lit |-> "", num |-> 0, line |-> 1],
      [k |-> "Variable", x |-> 0, y |-> 0, z |-> 0, xs |-> <<>>, name |-> "b", params |-> <<>>, lit |-> "", num |-> 0, line |-> 1],
      [k |-> "Binary", x |-> 936, y |-> 937, z |-> 0, xs |-> <<>>, name |-> "+", params |-> <<>>, lit |-> "", num |-> 0, line |-> 1],
      [k |-> "Variable", x |-> 0, y |-> 0, z |-> 0, xs |-> <<>>, name |-> "b", params |-> <<>>, lit |-> "", num |-> 0, line |-> 1],
      [k |-> "Binary", x |-> 938, y |-> 939, z |-> 0, xs |-> <<>>, name |-> "+", params |-> <<>>, lit |-> "", num |-> 0, line |-> 1],
      [k |-> "Variable", x |-> 0, y |-> 0, z |-> 0, xs |-> <<>>, name |-> "b", params |-> <<>>, lit |-> "", num |-> 0, line |-> 1],
      [k |-> "Binary", x |-> 940, y |-> 941, z |-> 0, xs |-> <<>>, name |-> "+", params |-> <<>>, lit |-> "", num |-> 0, line |-> 1],
      [k |-> "Variable", x |-> 0, y |-> 0, z |-> 0, xs |-> <<>>, name |-> "b", params |-> <<>>, lit |-> "", num |-> 0, line |-> 1],
      [k |-> "Binary", x |-> 942, y |-> 943, z |-> 0, xs |-> <<>>, name |-> "+", params |-> <<>>, lit |-> "", num |-> 0, line |-> 1],
      [k |-> "Variable", x |-> 0, y |-> 0, z |-> 0, xs |-> <<>>, name |-> "b", params |-> <<>>, lit |-> "", num |-> 0, line |-> 1],
      [k |-> "Binary", x |-> 944, y |-> 945, z |-> 0, xs |-> <<>>, name |-> "+", params |-> <<>>, lit |-> "", num |-> 0, line |-> 1],
      [k |-> "Print", x |-> 946, y |-> 0, z |-> 0, xs |-> <<>>, name |-> "", params |-> <<>>, lit |-> "", num |-> 0, line |-> 1],
      [k |-> "Block", x |-> 0, y |-> 0, z |-> 0, xs |-> <<931, 947>>, name |-> "", params |-> <<>>, lit |-> "", num |-> 0, line |-> 1],
      [k |-> "Variable", x |-> 0, y |-> 0, z |-> 0, xs |-> <<>>, name |-> "clock", params |-> <<>>, lit |-> "", num |-> 0, line |-> 2],
      [k |-> "Print", x |-> 949, y |-> 0, z |-> 0, xs |-> <<>>, name |-> "", params |-> <<>>, lit |-> "", num |-> 0, line |-> 2],
      [k |-> "Literal", x |-> 0, y |-> 0, z |-> 0, xs |-> <<>>, name |-> "", params |-> <<>>, lit |-> "number", num |-> 1, line |-> 0],
      [k |-> "Return", x |-> 951, y |-> 0, z |-> 0, xs |-> <<>>, name |-> "", params |-> <<>>, lit |-> "", num |-> 0, line |-> 0],
      [k |-> "Function", x |-> 0, y |-> 0, z |-> 0, xs |-> <<952>>, name |-> "a", params |-> <<>>, lit |-> "", num |-> 0, line |-> 0],
      [k |-> "Literal", x |-> 0, y |-> 0, z |-> 0, xs |-> <<>>, name |-> "", params |-> <<>>, lit |-> "number", num |-> 2, line |-> 0],
      [k |-> "Return", x |-> 954, y |-> 0, z |-> 0, xs |-> <<>>, name |-> "", params |-> <<>>, lit |-> "", num |-> 0, line |-> 0],
      [k |-> "Function", x |-> 0, y |-> 0, z |-> 0, xs |-> <<955>>, name |-> "b", params |-> <<>>, lit |-> "", num |-> 0, line |-> 0],
      [k |-> "Literal", x |-> 0, y |-> 0, z |-> 0, xs |-> <<>>, name |-> "", params |-> <<>>, lit |-> "number", num |-> 3, line |-> 0],
      [k |-> "Return", x |-> 957, y |-> 0, z |-> 0, xs |-> <<>>, name |-> "", params |-> <<>>, lit |-> "", num |-> 0, line |-> 0],
      [k |-> "Function", x |-> 0, y |-> 0, z |-> 0, xs |-> <<958>>, name |-> "c", params |-> <<>>, lit |-> "", num |-> 0, line |-> 0],
      [k |-> "Literal", x |-> 0, y |-> 0, z |-> 0, xs |-> <<>>, name |-> "", params |-> <<>>, lit |-> "number", num |-> 4, line |-> 0],
      [k |-> "Return", x |-> 960, y |-> 0, z |-> 0, xs |-> <<>>, name |-> "", params |-> <<>>, lit |-> "", num |-> 0, line |-> 0],
      [k |-> "Function", x |-> 0, y |-> 0, z |-> 0, xs |-> <<961>>, name |-> "d", params |-> <<>>, lit |-> "", num |-> 0, line |-> 0],
      [k |-> "Class", x |-> 0, y |-> 0, z |-> 0, xs |-> <<962, 959, 956, 953>>, name |-> "A", params |-> <<>>, lit |-> "", num |-> 0, line |-> 0],
      [k |-> "Variable", x |-> 0, y |-> 0, z |-> 0, xs |-> <<>>, name |-> "A", params |-> <<>>, lit |-> "", num |-> 0, line |-> 1],
      [k |-> "Call", x |-> 964, y |-> 0, z |-> 0, xs |-> <<>>, name |-> "", params |-> <<>>, lit |-> "", num |-> 0, line |-> 1],
      [k |-> "Get", x |-> 965, y |-> 0, z |-> 0, xs |-> <<>>, name |-> "d", params |-> <<>>, lit |-> "", num |-> 0, line |-> 1],
      [k |-> "Call", x |-> 966, y |-> 0, z |-> 0, xs |-> <<>>, name |-> "", params |-> <<>>, lit |-> "", num |-> 0, line |-> 1],
      [k |-> "Print", x |-> 967, y |-> 0, z |-> 0, xs |-> <<>>, name |-> "", params |-> <<>>, lit |-> "", num |-> 0, line |-> 1],
      [k |-> "Literal", x |-> 0, y |-> 0, z |-> 0, xs |-> <<>>, name |-> "", params |-> <<>>, lit |-> "number", num |-> 1, line |-> 0],
      [k |-> "Var", x |-> 969, y |-> 0, z |-> 0, xs |-> <<>>, name |-> "a", params |-> <<>>, lit |-> "", num |-> 0, line |-> 0],
      [k |-> "Literal", x |-> 0, y |-> 0, z |-> 0, xs |-> <<>>, name |-> "", params |-> <<>>, lit |-> "number", num |-> 2, line |-> 0],
      [k |-> "Var", x |-> 971, y |-> 0, z |-> 0, xs |-> <<>>, name |-> "b", params |-> <<>>, lit |-> "", num |-> 0, line |-> 0],
      [k |-> "Literal", x |-> 0, y |-> 0, z |-> 0, xs |-> <<>>, name |-> "", params |-> <<>>, lit |-> "number", num |-> 3, line |-> 0],
      [k |-> "Var", x |-> 973, y |-> 0, z |-> 0, xs |-> <<>>, name |-> "c", params |-> <<>>, lit |-> "", num |-> 0, line |-> 0],
      [k |-> "Literal", x |-> 0, y |-> 0, z |-> 0, xs |-> <<>>, name |-> "", params |-> <<>>, lit |-> "number", num |-> 4, line |-> 0],
      [k |-> "Var", x |-> 975, y |-> 0, z |-> 0, xs |-> <<>>, name |-> "d", params |-> <<>>, lit |-> "", num |-> 0, line |-> 0],
      [k |-> "Literal", x |-> 0, y |-> 0, z |-> 0, xs |-> <<>>, name |-> "", params |-> <<>>, lit |-> "number", num |-> 5, line |-> 0],
      [k |-> "Var", x |-> 977, y |-> 0, z |-> 0, xs |-> <<>>, name |-> "e", params |-> <<>>, lit |-> "", num |-> 0, line |-> 0],
      [k |-> "Literal", x |-> 0, y |-> 0, z |-> 0, xs |-> <<>>, name |-> "", params |-> <<>>, lit |-> "number", num |-> 6, line |-> 0],
      [k |-> "Var", x |-> 979, y |-> 0, z |-> 0, xs |-> <<>>, name |-> "f", params |-> <<>>, lit |-> "", num |-> 0, line |-> 0],
      [k |-> "Literal", x |-> 0, y |-> 0, z |-> 0, xs |-> <<>>, name |-> "", params |-> <<>>, lit |-> "number", num |-> 7, line |-> 0],
      [k |-> "Var", x |-> 981, y |-> 0, z |-> 0, xs |-> <<>>, name |-> "g", params |-> <<>>, lit |-> "", num |-> 0, line |-> 0],
      [k |-> "Literal", x |-> 0, y |-> 0, z |-> 0, xs |-> <<>>, name |-> "", params |-> <<>>, lit |-> "number", num |-> 8, line |-> 0],
      [k |-> "Var", x |-> 983, y |-> 0, z |-> 0, xs |-> <<>>, name |-> "h", params |-> <<>>, lit |-> "", num |-> 0, line |-> 0],
      [k |-> "Literal", x |-> 0, y |-> 0, z |-> 0, xs |-> <<>>, name |-> "", params |-> <<>>, lit |-> "number", num |-> 9, line |-> 0],
      [k |-> "Var", x |-> 985, y |-> 0, z |-> 0, xs |-> <<>>, name |-> "i", params |-> <<>>, lit |-> "", num |-> 0, line |-> 0],
      [k |-> "Literal", x |-> 0, y |-> 0, z |-> 0, xs |-> <<>>, name |-> "", params |-> <<>>, lit |-> "number", num |-> 10, line |-> 0],
      [k |-> "Var", x |-> 987, y |-> 0, z |-> 0, xs |-> <<>>, name |-> "j", params |-> <<>>, lit |-> "", num |-> 0, line |-> 0],
      [k |-> "Variable", x |-> 0, y |-> 0, z |-> 0, xs |-> <<>>, name |-> "a", params |-> <<>>, lit |-> "", num |-> 0, line |-> 0],
      [k |-> "Variable", x |-> 0, y |-> 0, z |-> 0, xs |-> <<>>, name |-> "j", params |-> <<>>, lit |-> "", num |-> 0, line |-> 0],
      [k |-> "Binary", x |-> 989, y |-> 990, z |-> 0, xs |-> <<>>, name |-> "+", params |-> <<>>, lit |-> "", num |-> 0, line |-> 0],
      [k |-> "Print", x |-> 991, y |-> 0, z |-> 0, xs |-> <<>>, name |-> "", params |-> <<>>, lit |-> "", num |-> 0, line |-> 0],
      [k |-> "Block", x |-> 0, y |-> 0, z |-> 0, xs |-> <<970, 972, 974, 976, 978, 980, 982, 984, 986, 988, 992>>, name |-> "", params |-> <<>>, lit |-> "", num |-> 0, line |-> 0],
      [k |-> "Variable", x |-> 0, y |-> 0, z |-> 0, xs |-> <<>>, name |-> "p", params |-> <<>>, lit |-> "", num |-> 0, line |-> 1],
      [k |-> "Variable", x |-> 0, y |-> 0, z |-> 0, xs |-> <<>>, name |-> "q", params |-> <<>>, lit |-> "", num |-> 0, line |-> 1],
      [k |-> "Binary", x |-> 994, y |-> 995, z |-> 0, xs |-> <<>>, name |-> "+", params |-> <<>>, lit |-> "", num |-> 0, line |-> 1],
      [k |-> "Var", x |-> 996, y |-> 0, z |-> 0, xs |-> <<>>, name |-> "r", params |-> <<>>, lit |-> "", num |-> 0, line |-> 1],
      [k |-> "Variable", x |-> 0, y |-> 0, z |-> 0, xs |-> <<>>, name |-> "r", params |-> <<>>, lit |-> "", num |-> 0, line |-> 1],
      [k |-> "Var", x |-> 998, y |-> 0, z |-> 0, xs |-> <<>>, name |-> "s", params |-> <<>>, lit |-> "", num |-> 0, line |-> 1],
      [k |-> "Variable", x |-> 0, y |-> 0, z |-> 0, xs |-> <<>>, name |-> "s", params |-> <<>>, lit |-> "", num |-> 0, line |-> 1],
      [k |-> "Return", x |-> 1000, y |-> 0, z |-> 0, xs |-> <<>>, name |-> "", params |-> <<>>, lit |-> "", num |-> 0, line |-> 1],
      [k |-> "Block", x |-> 0, y |-> 0, z |-> 0, xs |-> <<999, 1001>>, name |-> "", params |-> <<>>, lit |-> "", num |-> 0, line |-> 1],
      [k |-> "Function", x |-> 0, y |-> 0, z |-> 0, xs |-> <<997, 1002>>, name |-> "sum", params |-> <<"p", "q">>, lit |-> "", num |-> 0, line |-> 1],
      [k |-> "Variable", x |-> 0, y |-> 0, z |-> 0, xs |-> <<>>, name |-> "sum", params |-> <<>>, lit |-> "", num |-> 0, line |-> 2],
      [k |-> "Literal", x |-> 0, y |-> 0, z |-> 0, xs |-> <<>>, name |-> "", params |-> <<>>, lit |-> "number", num |-> 1, line |-> 2],
      [k |-> "Literal", x |-> 0, y |-> 0, z |-> 0, xs |-> <<>>, name |-> "", params |-> <<>>, lit |-> "number", num |-> 2, line |-> 2],
      [k |-> "Call", x |-> 1004, y |-> 0, z |-> 0, xs |-> <<1005, 1006>>, name |-> "", params |-> <<>>, lit |-> "", num |-> 0, line |-> 2],
      [k |-> "Print", x |-> 1007, y |-> 0, z |-> 0, xs |-> <<>>, name |-> "", params |-> <<>>, lit |-> "", num |-> 0, line |-> 2],
      [k |-> "Var", x |-> 0, y |-> 0, z |-> 0, xs |-> <<>>, name |-> "a", params |-> <<>>, lit |-> "", num |-> 0, line |-> 0],
      [k |-> "Var", x |-> 0, y |-> 0, z |-> 0, xs |-> <<>>, name |-> "b", params |-> <<>>, lit |-> "", num |-> 0, line |-> 0],
      [k |-> "Var", x |-> 0, y |-> 0, z |-> 0, xs |-> <<>>, name |-> "c", params |-> <<>>, lit |-> "", num |-> 0, line |-> 0],
      [k |-> "Var", x |-> 0, y |-> 0, z |-> 0, xs |-> <<>>, name |-> "d", params |-> <<>>, lit |-> "", num |-> 0, line |-> 0],
      [k |-> "Var", x |-> 0, y |-> 0, z |-> 0, xs |-> <<>>, name |-> "e", params |-> <<>>, lit |-> "", num |-> 0, line |-> 0],
      [k |-> "Var", x |-> 0, y |-> 0, z |-> 0, xs |-> <<>>, name |-> "f", params |-> <<>>, lit |-> "", num |-> 0, line |-> 0],
      [k |-> "Var", x |-> 0, y |-> 0, z |-> 0, xs |-> <<>>, name |-> "g", params |-> <<>>, lit |-> "", num |-> 0, line |-> 0],
      [k |-> "Var", x |-> 0, y |-> 0, z |-> 0, xs |-> <<>>, name |-> "h", params |-> <<>>, lit |-> "", num |-> 0, line |-> 0],
      [k |-> "Var", x |-> 0, y |-> 0, z |-> 0, xs |-> <<>>, name |-> "i", params |-> <<>>, lit |-> "", num |-> 0, line |-> 0],
      [k |-> "Var", x |-> 0, y |-> 0, z |-> 0, xs |-> <<>>, name |-> "j", params |-> <<>>, lit |-> "", num |-> 0, line |-> 0],
      [k |-> "Var", x |-> 0, y |-> 0, z |-> 0, xs |-> <<>>, name |-> "k", params |-> <<>>, lit |-> "", num |-> 0, line |-> 0],
      [k |-> "Variable", x |-> 0, y |-> 0, z |-> 0, xs |-> <<>>, name |-> "k", params |-> <<>>, lit |-> "", num |-> 0, line |-> 0],
      [k |-> "Print", x |-> 1020, y |-> 0, z |-> 0, xs |-> <<>>, name |-> "", params |-> <<>>, lit |-> "", num |-> 0, line |-> 0],
      [k |-> "Block", x |-> 0, y |-> 0, z |-> 0, xs |-> <<1009, 1010, 1011, 1012, 1013, 1014, 1015, 1016, 1017, 1018, 1019, 1021>>, name |-> "", params |-> <<>>, lit |-> "", num |-> 0, line |-> 0],
      [k |-> "Literal", x |-> 0, y |-> 0, z |-> 0, xs |-> <<>>, name |-> "", params |-> <<>>, lit |-> "number", num |-> 1, line |-> 1],
      [k |-> "Var", x |-> 1023, y |-> 0, z |-> 0, xs |-> <<>>, name |-> "a", params |-> <<>>, lit |-> "", num |-> 0, line |-> 1],
      [k |-> "Variable", x |-> 0, y |-> 0, z |-> 0, xs |-> <<>>, name |-> "a", params |-> <<>>, lit |-> "", num |-> 0, line |-> 1],
      [k |-> "Var", x |-> 1025, y |-> 0, z |-> 0, xs |-> <<>>, name |-> "b", params |-> <<>>, lit |-> "", num |-> 0, line |-> 1],
      [k |-> "Variable", x |-> 0, y |-> 0, z |-> 0, xs |-> <<>>, name |-> "b", params |-> <<>>, lit |-> "", num |-> 0, line |-> 1],
      [k |-> "Print", x |-> 1027, y |-> 0, z |-> 0, xs |-> <<>>, name |-> "", params |-> <<>>, lit |-> "", num |-> 0, line |-> 1],
      [k |-> "Block", x |-> 0, y |-> 0, z |-> 0, xs |-> <<1026, 1028>>, name |-> "", params |-> <<>>, lit |-> "", num |-> 0, line |-> 1],
      [k |-> "Block", x |-> 0, y |-> 0, z |-> 0, xs |-> <<1024, 1029>>, name |-> "", params |-> <<>>, lit |-> "", num |-> 0, line |-> 1],
      [k |-> "Literal", x |-> 0, y |-> 0, z |-> 0, xs |-> <<>>, name |-> "", params |-> <<>>, lit |-> "number", num |-> 1, line |-> 0],
      [k |-> "Var", x |-> 1031, y |-> 0, z |-> 0, xs |-> <<>>, name |-> "a", params |-> <<>>, lit |-> "", num |-> 0, line |-> 0],
      [k |-> "Literal", x |-> 0, y |-> 0, z |-> 0, xs |-> <<>>, name |-> "", params |-> <<>>, lit |-> "number", num |-> 2, line |-> 0],
      [k |-> "Var", x |-> 1033, y |-> 0, z |-> 0, xs |-> <<>>, name |-> "b", params |-> <<>>, lit |-> "", num |-> 0, line |-> 0],
      [k |-> "Literal", x |-> 0, y |-> 0, z |-> 0, xs |-> <<>>, name |-> "", params |-> <<>>, lit |-> "number", num |-> 3, line |-> 0],
      [k |-> "Var", x |-> 1035, y |-> 0, z |-> 0, xs |-> <<>>, name |-> "c", params |-> <<>>, lit |-> "", num |-> 0, line |-> 0],
      [k |-> "Literal", x |-> 0, y |-> 0, z |-> 0, xs |-> <<>>, name |-> "", params |-> <<>>, lit |-> "number", num |-> 4, line |-> 0],
      [k |-> "Var", x |-> 1037, y |-> 0, z |-> 0, xs |-> <<>>, name |-> "d", params |-> <<>>, lit |-> "", num |-> 0, line |-> 0],
      [k |-> "Literal", x |-> 0, y |-> 0, z |-> 0, xs |-> <<>>, name |-> "", params |-> <<>>, lit |-> "number", num |-> 5, line |-> 0],
      [k |-> "Var", x |-> 1039, y |-> 0, z |-> 0, xs |-> <<>>, name |-> "e", params |-> <<>>, lit |-> "", num |-> 0, line |-> 0],
      [k |-> "Literal", x |-> 0, y |-> 0, z |-> 0, xs |-> <<>>, name |-> "", params |-> <<>>, lit |-> "number", num |-> 6, line |-> 0],
      [k |-> "Var", x |-> 1041, y |-> 0, z |-> 0, xs |-> <<>>, name |-> "f", params |-> <<>>, lit |-> "", num |-> 0, line |-> 0],
      [k |-> "Literal", x |-> 0, y |-> 0, z |-> 0, xs |-> <<>>, name |-> "", params |-> <<>>, lit |-> "number", num |-> 7, line |-> 0],
      [k |-> "Var", x |-> 1043, y |-> 0, z |-> 0, xs |-> <<>>, name |-> "g", params |-> <<>>, lit |-> "", num |-> 0, line |-> 0],
      [k |-> "Literal", x |-> 0, y |-> 0, z |-> 0, xs |-> <<>>, name |-> "", params |-> <<>>, lit |-> "number", num |-> 8, line |-> 0],
      [k |-> "Var", x |-> 1045, y |-> 0, z |-> 0, xs |-> <<>>, name |-> "h", params |-> <<>>, lit |-> "", num |-> 0, line |-> 0],
      [k |-> "Literal", x |-> 0, y |-> 0, z |-> 0, xs |-> <<>>, name |-> "", params |-> <<>>, lit |-> "number", num |-> 9, line |-> 0],
      [k |-> "Var", x |-> 1047, y |-> 0, z |-> 0, xs |-> <<>>, name |-> "i", params |-> <<>>, lit |-> "", num |-> 0, line |-> 0],
      [k |-> "Literal", x |-> 0, y |-> 0, z |-> 0, xs |-> <<>>, name |-> "", params |-> <<>>, lit |-> "number", num |-> 10, line |-> 1],
      [k |-> "Var", x |-> 1049, y |-> 0, z |-> 0, xs |-> <<>>, name |-> "a", params |-> <<>>, lit |-> "", num |-> 0, line |-> 1],
      [k |-> "Variable", x |-> 0, y |-> 0, z |-> 0, xs |-> <<>>, name |-> "a", params |-> <<>>, lit |-> "", num |-> 0, line |-> 1],
      [k |-> "Print", x |-> 1051, y |-> 0, z |-> 0, xs |-> <<>>, name |-> "", params |-> <<>>, lit |-> "", num |-> 0, line |-> 1],
      [k |-> "Literal", x |-> 0, y |-> 0, z |-> 0, xs |-> <<>>, name |-> "", params |-> <<>>, lit |-> "number", num |-> 11, line |-> 2],
      [k |-> "Var", x |-> 1053, y |-> 0, z |-> 0, xs |-> <<>>, name |-> "j", params |-> <<>>, lit |-> "", num |-> 0, line |-> 2],
      [k |-> "Literal", x |-> 0, y |-> 0, z |-> 0, xs |-> <<>>, name |-> "", params |-> <<>>, lit |-> "number", num |-> 12, line |-> 3],
      [k |-> "Var", x |-> 1055, y |-> 0, z |-> 0, xs |-> <<>>, name |-> "k", params |-> <<>>, lit |-> "", num |-> 0, line |-> 3],
      [k |-> "Variable", x |-> 0, y |-> 0, z |-> 0, xs |-> <<>>, name |-> "i", params |-> <<>>, lit |-> "", num |-> 0, line |-> 4],
      [k |-> "Print", x |-> 1057, y |-> 0, z |-> 0, xs |-> <<>>, name |-> "", params |-> <<>>, lit |-> "", num |-> 0, line |-> 4],
      [k |-> "Variable", x |-> 0, y |-> 0, z |-> 0, xs |-> <<>>, name |-> "f", params |-> <<>>, lit |-> "", num |-> 0, line |-> 0],
      [k |-> "Variable", x |-> 0, y |-> 0, z |-> 0, xs |-> <<>>, name |-> "n", params |-> <<>>, lit |-> "", num |-> 0, line |-> 0],
      [k |-> "Literal", x |-> 0, y |-> 0, z |-> 0, xs |-> <<>>, name |-> "", params |-> <<>>, lit |-> "number", num |-> 1, line |-> 0],
      [k |-> "Binary", x |-> 1060, y |-> 1061, z |-> 0, xs |-> <<>>, name |-> "+", params |-> <<>>, lit |-> "", num |-> 0, line |-> 0],
      [k |-> "Call", x |-> 1059, y |-> 0, z |-> 0, xs |-> <<1062>>, name |-> "", params |-> <<>>, lit |-> "", num |-> 0, line |-> 0],
      [k |-> "Return", x |-> 1063, y |-> 0, z |-> 0, xs |-> <<>>, name |-> "", params |-> <<>>, lit |-> "", num |-> 0, line |-> 0],
      [k |-> "Function", x |-> 0, y |-> 0, z |-> 0, xs |-> <<1064>>, name |-> "f", params |-> <<"n">>, lit |-> "", num |-> 0, line |-> 0],
      [k |-> "Variable", x |-> 0, y |-> 0, z |-> 0, xs |-> <<>>, name |-> "f", params |-> <<>>, lit |-> "", num |-> 0, line |-> 1],
      [k |-> "Literal", x |-> 0, y |-> 0, z |-> 0, xs |-> <<>>, name |-> "", params |-> <<>>, lit |-> "number", num |-> 1, line |-> 1],
      [k |-> "Call", x |-> 1066, y |-> 0, z |-> 0, xs |-> <<1067>>, name |-> "", params |-> <<>>, lit |-> "", num |-> 0, line |-> 1],
      [k |-> "Print", x |-> 1068, y |-> 0, z |-> 0, xs |-> <<>>, name |-> "", params |-> <<>>, lit |-> "", num |-> 0, line |-> 1],
      [k |-> "Literal", x |-> 0, y |-> 0, z |-> 0, xs |-> <<>>, name |-> "", params |-> <<>>, lit |-> "number", num |-> 7, line |-> 2],
      [k |-> "Return", x |-> 1070, y |-> 0, z |-> 0, xs |-> <<>>, name |-> "", params |-> <<>>, lit |-> "", num |-> 0, line |-> 2],
      [k |-> "Function", x |-> 0, y |-> 0, z |-> 0, xs |-> <<1071>>, name |-> "g", params |-> <<>>, lit |-> "", num |-> 0, line |-> 2],
      [k |-> "Variable", x |-> 0, y |-> 0, z |-> 0, xs |-> <<>>, name |-> "g", params |-> <<>>, lit |-> "", num |-> 0, line |-> 2],
      [k |-> "Call", x |-> 1073, y |-> 0, z |-> 0, xs |-> <<>>, name |-> "", params |-> <<>>, lit |-> "", num |-> 0, line |-> 2],
      [k |-> "Print", x |-> 1074, y |-> 0, z |-> 0, xs |-> <<>>, name |-> "", params |-> <<>>, lit |-> "", num |-> 0, line |-> 2]>>

\* The characters of the identifiers of the sessions and of the native
\* functions, as byte values.
Spelling ==
    ("A" :> <<65>>) @@
    ("B" :> <<66>>) @@
    ("C" :> <<67>>) @@
    ("D" :> <<68>>) @@
    ("E" :> <<69>>) @@
    ("F" :> <<70>>) @@
    ("G" :> <<71>>) @@
    ("a" :> <<97>>) @@
    ("b" :> <<98>>) @@
    ("c" :> <<99>>) @@
    ("clock" :> <<99, 108, 111, 99, 107>>) @@
    ("d" :> <<100>>) @@
    ("e" :> <<101>>) @@
    ("env" :> <<101, 110, 118>>) @@
    ("f" :> <<102>>) @@
    ("g" :> <<103>>) @@
    ("get" :> <<103, 101, 116>>) @@
    ("gs" :> <<103, 115>>) @@
    ("h" :> <<104>>) @@
    ("help" :> <<104, 101, 108, 112>>) @@
    ("i" :> <<105>>) @@
    ("inc" :> <<105, 110, 99>>) @@
    ("init" :> <<105, 110, 105, 116>>) @@
    ("j" :> <<106>>) @@
    ("k" :> <<107>>) @@
    ("m" :> <<109>>) @@
    ("mk" :> <<109, 107>>) @@
    ("n" :> <<110>>) @@
    ("p" :> <<112>>) @@
    ("q" :> <<113>>) @@
    ("quit" :> <<113, 117, 105, 116>>) @@
    ("r" :> <<114>>) @@
    ("s" :> <<115>>) @@
    ("sum" :> <<115, 117, 109>>) @@
    ("two" :> <<116, 119, 111>>) @@
    ("u" :> <<117>>) @@
    ("wc" :> <<119, 99>>) @@
    ("who" :> <<119, 104, 111>>) @@
    ("x" :> <<120>>)
\*AST-END
\* the node table the handlers read
AST == ast

(***************************************************************************)
(* resolver.c.  The resolver's state is a record r: the stack of scopes    *)
(* (the innermost last; a scope is the sequence of its entries, an entry's *)
(* index is its position less one), the side table locals it fills through *)
(* interpreter_resolve, and the flags.                                     *)
(***************************************************************************)
\* LOX_MAX_LOCAL_VARIABLES (255 in common.h), scaled down
LOX_MAX_LOCAL_VARIABLES == 10

NoLocal == [depth |-> -1, index |-> -1]

\* table_get: the position of the first entry of that name, or 0
table_get(name, scope) ==
    LET found == {i \in 1..Len(scope) : scope[i].name = name}
    IN IF found = {} THEN 0 ELSE CHOOSE i \in found : \A j \in found : i <= j

\* resolver_throwError: the error is reported (lox_token_error sets
\* lox_hadError_) and returned; reports is what was reported, in order
resolver_throwError(token, message, r) ==
    [r EXCEPT !.hadError = TRUE,
              !.reports = Append(@, [token |-> token, message |-> message])]

\* a table_insert that has no limit on the entries of a scope
table_insert_Unbounded(name, isDefined, r) ==
    [r EXCEPT !.scopes[Len(r.scopes)] =
                 Append(@, [name |-> name, isDefined |-> isDefined])]

\* table_insert, which fails on a full scope
table_insert(name, isDefined, r) ==
    LET top == Len(r.scopes)
    IN IF Len(r.scopes[top]) = LOX_MAX_LOCAL_VARIABLES
       THEN [resolver_throwError(NULL, "Too many local variables in function.", r)
             EXCEPT !.error = TRUE]
       ELSE [r EXCEPT !.scopes[top] =
                         Append(@, [name |-> name, isDefined |-> isDefined])]

\* declare; error tells the caller whether an error was returned
declare(name, r) ==
    IF r.scopes = <<>> THEN [r EXCEPT !.error = FALSE]
    ELSE IF table_get(name, r.scopes[Len(r.scopes)]) # 0
    THEN table_insert(name, FALSE,
             [resolver_throwError(NULL,
                  "Variable with this name already declared in this scope.", r)
              EXCEPT !.error = TRUE])
    ELSE table_insert(name, FALSE, [r EXCEPT !.error = FALSE])

define(name, r) ==
    IF r.scopes = <<>> THEN r
    ELSE LET top == Len(r.scopes)
         IN [r EXCEPT !.scopes[top][table_get(name, r.scopes[top])].isDefined = TRUE]

\* LOCALS_HASH_MAP_SIZE (1024 in interpreter.h), scaled down: the number of
\* entries of the side table
LOCALS_HASH_MAP_SIZE == 16

\* interpreter->localsCount: the entries of the side table that hold an
\* expression
localsCount(locals) == Cardinality({n \in 1..Len(locals) : locals[n] # NoLocal})

\* interpreter_resolve: the expression is recorded in the first free entry
\* from its hash on; the assert stops the run when every entry is taken
interpreter_resolve(expr, depth, index, r) ==
    IF r.fault # "" THEN r
    ELSE IF localsCount(r.locals) = LOCALS_HASH_MAP_SIZE
    THEN [r EXCEPT !.fault = "interpreter_resolve: assert(localsCount != LOCALS_HASH_MAP_SIZE)"]
    ELSE [r EXCEPT !.locals[expr] = [depth |-> depth, index |-> index]]

RECURSIVE resolveLocalFrom(_, _, _, _)
\* the loop of resolveLocal, from the scope at position level outwards
resolveLocalFrom(expr, name, level, r) ==
    IF level = 0 THEN r
    ELSE IF table_get(name, r.scopes[level]) # 0
    THEN interpreter_resolve(expr, Len(r.scopes) - level,
                             table_get(name, r.scopes[level]) - 1, r)
    ELSE resolveLocalFrom(expr, name, level - 1, r)

resolveLocal(expr, name, r) == resolveLocalFrom(expr, name, Len(r.scopes), r)

beginScope(r) == [r EXCEPT !.scopes = Append(@, <<>>)]

\* the names of the entries of a scope, in the order of entry->index
scopeNames(scope) == [i \in 1..Len(scope) |-> scope[i].name]

\* endScope pops the scope; ended keeps the names every popped scope held
endScope(r) ==
    [r EXCEPT !.scopes = SubSeq(@, 1, Len(@) - 1),
              !.ended = @ \cup {scopeNames(r.scopes[Len(r.scopes)])}]

RECURSIVE resolveStmt(_, _), resolveExpr(_, _), resolveStmtList(_, _, _),
          resolveExprList(_, _, _), resolveParameters(_, _, _),
          resolveFunction(_, _, _), resolveMethods(_, _, _)

\* the loop over a list of statements; nothing more is resolved once the
\* assert of interpreter_resolve has ended the process
resolveStmtList(list, index, r) ==
    IF r.fault # "" \/ index > Len(list) THEN r
    ELSE resolveStmtList(list, index + 1, resolveStmt(list[index], r))

resolveExprList(list, index, r) ==
    IF index > Len(list) THEN r
    ELSE resolveExprList(list, index + 1, resolveExpr(list[index], r))

\* the parameter loop of resolveFunction, left at the first failed declare
resolveDefineParameter(params, index, r) ==
    IF r.error THEN r
    ELSE resolveParameters(params, index + 1, define(params[index], r))

resolveParameters(params, index, r) ==
    IF index > Len(params) THEN r
    ELSE resolveDefineParameter(params, index, declare(params[index], r))

\* a resolveFunction that leaves currentFunction as the function set it
resolveFunctionEnd_Stays(enclosingFunction, r) == endScope(r)

resolveFunctionEnd(enclosingFunction, r) ==
    [endScope(r) EXCEPT !.currentFunction = enclosingFunction]

resolveFunction(function, type, r) ==
    resolveFunctionEnd(r.currentFunction,
        resolveStmtList(AST[function].xs, 1,
            resolveParameters(AST[function].params, 1,
                beginScope([r EXCEPT !.currentFunction = type]))))

resolveMethods(methods, index, r) ==
    IF index > Len(methods) THEN r
    ELSE resolveMethods(methods, index + 1,
             resolveFunction(methods[index],
                 IF AST[methods[index]].name = "init"
                 THEN "FT_INITIALIZER" ELSE "FT_METHOD", r))

resolver_visitBlockStmt(stmt, r) ==
    endScope(resolveStmtList(AST[stmt].xs, 1, beginScope(r)))

\* resolver_visitClassStmt after the superclass: the scope of this, the
\* methods, the class statement's own side-table entry
\* a visitClassStmt that leaves currentClass as the class set it
resolveClassBody_Stays(stmt, enclosingClass, r) ==
    resolveLocal(stmt, AST[stmt].name,
        (IF AST[stmt].x # NULL THEN endScope(endScope(r)) ELSE endScope(r)))

resolveClassBody(stmt, enclosingClass, r) ==
    [resolveLocal(stmt, AST[stmt].name,
        (IF AST[stmt].x # NULL THEN endScope(endScope(r)) ELSE endScope(r)))
     EXCEPT !.currentClass = enclosingClass]

resolveClassMethods(stmt, enclosingClass, r) ==
    resolveClassBody(stmt, enclosingClass,
        resolveMethods(AST[stmt].xs, 1,
            table_insert("this", TRUE, beginScope(r))))

resolveSuperClass(stmt, r) ==
    table_insert("super", TRUE,
        beginScope(resolveExpr(AST[stmt].x, [r EXCEPT !.currentClass = "CT_SUBCLASS"])))

resolver_visitClassStmt(stmt, r) ==
    resolveClassMethods(stmt, r.currentClass,
        IF AST[stmt].x # NULL
        THEN resolveSuperClass(stmt, define(AST[stmt].name, declare(AST[stmt].name, r)))
        ELSE [define(AST[stmt].name, declare(AST[stmt].name, r))
                 EXCEPT !.currentClass = "CT_CLASS"])

resolveVarInitializer(stmt, r) ==
    IF r.error THEN r
    ELSE define(AST[stmt].name,
             IF AST[stmt].x # NULL THEN resolveExpr(AST[stmt].x, r) ELSE r)

resolver_visitVarStmt(stmt, r) ==
    resolveVarInitializer(stmt, declare(AST[stmt].name, r))

\* a visitFunctionStmt that keeps the function type of the enclosing function
resolver_visitFunctionStmt_Inherits(stmt, r) ==
    resolveFunction(stmt,
        IF r.currentFunction = "FT_NONE" THEN "FT_FUNCTION" ELSE r.currentFunction,
        define(AST[stmt].name, declare(AST[stmt].name, r)))

resolver_visitFunctionStmt(stmt, r) ==
    resolveFunction(stmt, "FT_FUNCTION",
        define(AST[stmt].name, declare(AST[stmt].name, r)))

resolver_visitReturnStmt(stmt, r) ==
    IF r.currentFunction = "FT_NONE"
    THEN resolver_throwError(stmt, "Cannot return from top-level code.", r)
    ELSE IF AST[stmt].x = NULL THEN r
    ELSE IF r.currentFunction = "FT_INITIALIZER"
    THEN resolver_throwError(stmt, "Cannot return a value from an initializer.", r)
    ELSE resolveExpr(AST[stmt].x, r)

resolveBranches(stmt, r) ==
    IF AST[stmt].z # NULL THEN resolveStmt(AST[stmt].z, resolveStmt(AST[stmt].y, r))
    ELSE resolveStmt(AST[stmt].y, r)

resolveStmt(stmt, r) ==
    LET k == AST[stmt].k
    IN CASE k = "Block" -> resolver_visitBlockStmt(stmt, r)
         [] k = "Class" -> resolver_visitClassStmt(stmt, r)
         [] k = "Expression" -> resolveExpr(AST[stmt].x, r)
         [] k = "Function" -> resolver_visitFunctionStmt(stmt, r)
         [] k = "If" -> resolveBranches(stmt, resolveExpr(AST[stmt].x, r))
         [] k = "Print" -> resolveExpr(AST[stmt].x, r)
         [] k = "Return" -> resolver_visitReturnStmt(stmt, r)
         [] k = "Var" -> resolver_visitVarStmt(stmt, r)
         [] k = "While" -> resolveStmt(AST[stmt].y, resolveExpr(AST[stmt].x, r))

\* a read of a variable declared in the innermost scope and not yet defined
\* is an error
resolver_visitVariableExpr(expr, r) ==
    LET top == Len(r.scopes)
        entry == IF top = 0 THEN 0 ELSE table_get(AST[expr].name, r.scopes[top])
    IN IF entry # 0 /\ ~r.scopes[top][entry].isDefined
       THEN resolver_throwError(expr,
                "Cannot read local variable in its own initializer.", r)
       ELSE resolveLocal(expr, AST[expr].name, r)

resolver_visitAssignExpr(expr, r) ==
    resolveLocal(expr, AST[expr].name, resolveExpr(AST[expr].x, r))

resolver_visitSuperExpr(expr, r) ==
    IF r.currentClass = "CT_NONE"
    THEN resolver_throwError(expr, "Cannot use 'super' outside of a class.", r)
    ELSE IF r.currentClass # "CT_SUBCLASS"
    THEN resolver_throwError(expr,
             "Cannot use 'super' in a class with no superclass.", r)
    ELSE resolveLocal(expr, "super", r)

resolver_visitThisExpr(expr, r) ==
    IF r.currentClass = "CT_NONE"
    THEN resolver_throwError(expr, "Cannot use 'this' outside of a class.", r)
    ELSE resolveLocal(expr, "this", r)

resolveExpr(expr, r) ==
    LET k == AST[expr].k
    IN CASE k = "Assign" -> resolver_visitAssignExpr(expr, r)
         [] k = "Binary" -> resolveExpr(AST[expr].y, resolveExpr(AST[expr].x, r))
         [] k = "Call" -> resolveExprList(AST[expr].xs, 1, resolveExpr(AST[expr].x, r))
         [] k = "Get" -> resolveExpr(AST[expr].x, r)
         [] k = "Grouping" -> resolveExpr(AST[expr].x, r)
         [] k = "Literal" -> r
         [] k = "Logical" -> resolveExpr(AST[expr].y, resolveExpr(AST[expr].x, r))
         [] k = "Set" -> resolveExpr(AST[expr].x, resolveExpr(AST[expr].y, r))
         [] k = "Super" -> resolver_visitSuperExpr(expr, r)
         [] k = "This" -> resolver_visitThisExpr(expr, r)
         [] k = "Unary" -> resolveExpr(AST[expr].x, r)
         [] k = "Variable" -> resolver_visitVariableExpr(expr, r)

\* resolve: a new resolver over the interpreter's side table
resolve(statements, locals) ==
    resolveStmtList(statements, 1,
        [scopes |-> <<>>, locals |-> locals, hadError |-> FALSE, error |-> FALSE,
         reports |-> <<>>, fault |-> "", ended |-> {},
         currentFunction |-> "FT_NONE", currentClass |-> "CT_NONE"])

(***************************************************************************)
(* interpreter.c.  The evaluator runs one step at a time: a step is the    *)
(* code of one handler from its entry, or from the return of a call of     *)
(* evaluate / execute / function_call, to the next such call or to its own *)
(* return.  The C call stack is the sequence stack of frames (the          *)
(* outermost first).  A frame names its handler f, the syntax node n it    *)
(* works on, the place pc where it goes on, and its C locals: i (a loop    *)
(* index), a and b (Object pointers), e and prev (Environment pointers),   *)
(* fn, kl, ins and ar (LoxFunction, LoxClass, LoxInstance and LoxArguments *)
(* pointers) and error (an Error its callee hands back).  A local holds    *)
(* NULL before its first and after its last use.  A token is named by the  *)
(* syntax node it belongs to.                                              *)
(*                                                                         *)
(* The build options are the asserting build (an assert that fails stops   *)
(* the run and is recorded in fault) and GC_DEBUG (run.gcDebug).           *)
(***************************************************************************)
NoError == [message |-> "", token |-> NULL]

initError(token, message) == [message |-> message, token |-> token]

Frame(f, n) ==
    [f |-> f, n |-> n, pc |-> "start", i |-> 0, a |-> NULL, b |-> NULL,
     e |-> NULL, prev |-> NULL, fn |-> NULL, kl |-> NULL, ins |-> NULL,
     ar |-> NULL, error |-> NoError, pins |-> 0, outer |-> NULL]

\* What the run records for the properties: the last slot access (slot,
\* index, slotsUsed), the last entry into function_call (call, count, arity),
\* the number of things the collections of the last step released, the pin
\* count, the current environment and the number of function calls under
\* way (calls) at the last throw, and whether the last
\* request for an environment was refused and left the collector's lists as
\* they were, and whether the last throw came from a pin refused by a full
\* pin stack (full) that left the pin stack as it was (pinsKept).  Of the
\* last function_call that returned a value (returned): whether the function
\* was an initializer, whether its body fell off its end (fell), whether the
\* value is the one the body returned (same), the value's type and the
\* instance it refers to (referent), and the instance slot 0 of the
\* function's closure refers to (this).  Of the last class_call that returned
\* a value (constructed): the instance it made and the one its value refers to.
\* Whether the step just taken was a property access on an instance (access),
\* and then the instance, the name token and the number of functions there
\* were before it.  Whether the step just taken evaluated a super expression
\* (super), and then its node (property), the environment and the index its
\* side-table entry leads to, and the environment one level nearer.  Whether
\* the step just taken found the callee of a call to be no Native, Function
\* or Class (notCallable), and then the call's node (property).
NoProbe == [slot |-> FALSE, index |-> 0, slotsUsed |-> 0,
            call |-> FALSE, count |-> 0, arity |-> 0,
            released |-> 0, pins |-> 0, environment |-> NULL, calls |-> 0,
            refused |-> FALSE, listsKept |-> TRUE,
            full |-> FALSE, pinsKept |-> TRUE,
            returned |-> FALSE, initializer |-> FALSE, fell |-> FALSE,
            same |-> FALSE, type |-> "", referent |-> NULL, this |-> NULL,
            constructed |-> FALSE, made |-> NULL, got |-> NULL,
            access |-> FALSE, instance |-> NULL, property |-> NULL, funs |-> 0,
            super |-> FALSE, superEnv |-> NULL, superIndex |-> 0,
            thisEnv |-> NULL, notCallable |-> FALSE,
     resolved |-> 0, reports |-> <<>>, context |-> "FT_NONE", scopes |-> {}]

\* The machine: the heap, the evaluator's state, and the two results of the
\* function called last (ret, the returned pointer; error, the Error it set).
Machine ==
    [gc |-> gc, obj |-> obj, env |-> env, fun |-> fun, cls |-> cls,
     inst |-> inst, arg |-> arg, fault |-> fault, swept |-> {}, ret |-> NULL,
     error |-> NoError, stack |-> stack, val |-> val, it |-> it, out |-> out,
     run |-> run, probe |-> [probe EXCEPT !.released = 0, !.access = FALSE,
                                      !.super = FALSE, !.notCallable = FALSE],
     beyond |-> "unread"]

\* the machine of a step in which a read past the globals' hash table, if
\* the step makes one, has the given outcome
Reading(outcome) == [Machine EXCEPT !.beyond = outcome]

SetMachine(m) ==
    /\ SetHeap(m)
    /\ stack' = m.stack
    /\ val' = m.val
    /\ it' = m.it
    /\ out' = m.out
    /\ run' = m.run
    /\ probe' = m.probe

Top(m) == m.stack[Len(m.stack)]

\* a longjmp to interpret's catchLocation is under way
Unwinding(m) ==
    /\ m.stack # <<>>
    /\ Top(m).f = "interpret"
    /\ Top(m).pc # "loop"

\* the rest of the running handler is not executed: an assert failed or an
\* exception was thrown
Stopped(m) == m.fault # "" \/ Unwinding(m)

Fail(what, m) == IF Stopped(m) THEN m ELSE Fault(m, what)

\* what the C locals of the active handlers, the returned value and the
\* interpreter's current environment point to
ThingsOf(f) ==
    {<<"obj", f.a>>, <<"obj", f.b>>, <<"env", f.e>>, <<"env", f.prev>>,
     <<"fun", f.fn>>, <<"cls", f.kl>>, <<"inst", f.ins>>, <<"arg", f.ar>>}

InUse(m) ==
    {x \in UNION {ThingsOf(m.stack[i]) : i \in 1..Len(m.stack)}
           \cup {<<"obj", m.val>>, <<"env", m.it.environment>>} : x[2] # NULL}

\* after an allocation: a collection it ran has released something a C
\* local still points to
Collected(m) ==
    IF m.fault = "" /\ InUse(m) \cap m.swept # {}
    THEN Fault(m, "released value in use")
    ELSE [m EXCEPT !.swept = {},
                   !.probe.released = @ + Cardinality(m.swept)]

(* ---- the C locals and the control flow ---- *)
Set(r, v, m) ==
    IF Stopped(m) THEN m ELSE [m EXCEPT !.stack[Len(m.stack)][r] = v]

Goto(pc, m) == Set("pc", pc, m)

\* the local r receives the value the callee returned
Take(r, m) ==
    IF Stopped(m) THEN m
    ELSE [m EXCEPT !.stack[Len(m.stack)][r] = m.val, !.val = NULL]

\* the local r receives the pointer the function called last returned
Keep(r, m) == Set(r, m.ret, m)

\* the returned value is not used
Drop(m) == IF Stopped(m) THEN m ELSE [m EXCEPT !.val = NULL]

\* return v; error is the Error handed back to the caller's local
Return(v, m) ==
    IF Stopped(m) THEN m
    ELSE [m EXCEPT !.stack = SubSeq(@, 1, Len(@) - 1), !.val = v]

ReturnRet(m) == Return(m.ret, m)

ReturnError(error, m) ==
    IF Stopped(m) THEN m
    ELSE [m EXCEPT !.stack = [SubSeq(@, 1, Len(@) - 1)
                                 EXCEPT ![Len(m.stack) - 1].error = error],
                   !.val = NULL]

\* the frame of a call; pins and outer record the depth of the pin stack
\* and the current environment on entry
Push(frame, m) ==
    IF Stopped(m) THEN m
    ELSE [m EXCEPT !.stack = Append(@, [frame EXCEPT !.pins = Len(m.gc.locked),
                                                     !.outer = m.it.environment])]

\* evaluate / execute: the visitor of the node's kind is entered; the
\* caller goes on at pc
evaluate(expr, pc, m) == Push(Frame(AST[expr].k, expr), Goto(pc, m))

execute(statement, pc, m) == Push(Frame(AST[statement].k, statement), Goto(pc, m))

\* the calls of function_call that have not returned
callsOf(frames) ==
    Cardinality({i \in 1..Len(frames) : frames[i].f = "function_call"})

\* interpreter_throwError: the error is kept and control jumps to the catch
\* of interpret, whose frame is the second of the stack
interpreter_throwError(error, m) ==
    IF Stopped(m) THEN m
    ELSE [m EXCEPT !.it.runtimeError = error,
                   !.stack = <<m.stack[1],
                               [m.stack[2] EXCEPT !.pc = "RUNTIME_ERROR"]>>,
                   !.val = NULL,
                   !.probe.pins = Len(m.gc.locked),
                   !.probe.environment = m.it.environment,
                   !.probe.calls = callsOf(m.stack),
                   !.probe.full = FALSE]

interpreter_throwNewError(token, message, m) ==
    interpreter_throwError(initError(token, message), m)

\* if (error) interpreter_throwError(error, interpreter), on the Error the
\* function called last set
throwIfError(m) ==
    IF Stopped(m) \/ m.error = NoError THEN m
    ELSE interpreter_throwError(m.error, m)

\* a throwExit that sets the flag and returns to its caller
interpreter_throwExit_Returns(m) ==
    IF Stopped(m) THEN m ELSE [m EXCEPT !.it.exitREPL = TRUE, !.ret = NULL]

interpreter_throwExit(m) ==
    IF Stopped(m) THEN m
    ELSE [m EXCEPT !.it.exitREPL = TRUE,
                   !.stack = <<m.stack[1], [m.stack[2] EXCEPT !.pc = "EXIT"]>>,
                   !.val = NULL,
                   !.probe.pins = Len(m.gc.locked),
                   !.probe.environment = m.it.environment,
                   !.probe.full = FALSE]

\* the macro GC_LOCK
lockOrThrow(token, m, locked) ==
    IF locked.ret = 0
    THEN [interpreter_throwNewError(token, "Stack overflow.", locked)
             EXCEPT !.probe.full = TRUE,
                    !.probe.pinsKept = locked.gc.locked = m.gc.locked]
    ELSE locked

GC_LOCK(object, token, m) ==
    IF Stopped(m) THEN m ELSE lockOrThrow(token, m, gcLock(object, m))

\* a gcPopLock that leaves the pin where it is
PopLock_Leaves(m) == m

PopLock(m) == IF Stopped(m) THEN m ELSE gcPopLock(m)

(* ---- allocation, with the build's GC_DEBUG option ---- *)
new(type, p, b, n, s, m) ==
    IF Stopped(m) THEN m
    ELSE Collected(objNew(type, p, b, n, FALSE, s, m.run.gcDebug, m))

newNil(m) == new("OT_NIL", NULL, FALSE, 0, "", m)
newBoolean(b, m) == new("OT_BOOLEAN", NULL, b, 0, "", m)
newNumber(n, m) == new("OT_NUMBER", NULL, FALSE, n, "", m)
newString(s, m) == new("OT_STRING", NULL, FALSE, 0, s, m)
wrapFunction(f, m) == new("OT_FUNCTION", f, FALSE, 0, "", m)
wrapClass(k, m) == new("OT_CLASS", k, FALSE, 0, "", m)
wrapInstance(i, m) == new("OT_INSTANCE", i, FALSE, 0, "", m)
wrapArguments(a, m) == new("OT_ARGUMENTS", a, FALSE, 0, "", m)

dup(o, m) ==
    IF Stopped(m) THEN m
    ELSE IF o = NULL THEN Fault(m, "obj_dup: NULL dereferenced")
    ELSE Collected(obj_dup(o, m.run.gcDebug, m))

\* the lists of the collector: the tracked and the unused nodes and
\* environments, the laundry list and the pin stack
gcLists(g) ==
    <<g.firstObject, g.firstUnused, g.firstEnvironment,
      g.firstUnusedEnvironment, g.laundryList, g.locked>>

\* env_init: error is set when there is no environment left; before is the
\* collector as the request found it
envOrError(before, m) ==
    [m EXCEPT !.error = IF m.ret = NULL
                        THEN initError(NULL, "Stack overflow.")
                        ELSE NoError,
              !.probe.refused = m.ret = NULL,
              !.probe.listsKept = gcLists(m.gc) = gcLists(before)]

newEnvironment(enclosing, m) ==
    IF Stopped(m) THEN m
    ELSE envOrError(m.gc, Collected(env_init(enclosing, m.run.gcDebug, m)))

releaseEnvironment(e, m) == IF Stopped(m) THEN m ELSE env_release(e, m)

(***************************************************************************)
(* environment.c: definitions, reads and assignments.  The build defines    *)
(* ENV_GLOBALS_USE_HASH: the names of the global environment are kept in a *)
(* hash table of ENV_GLOBAL_HASH_SIZE entries with linear probing.  The    *)
(* table is held as names (in the order of definition) and places (the     *)
(* table position of each name); the entries of the other positions have a *)
(* NULL name.                                                              *)
(***************************************************************************)
\* ENV_MAX_CAPACITY (LOX_MAX_LOCAL_VARIABLES + 1)
ENV_MAX_CAPACITY == LOX_MAX_LOCAL_VARIABLES + 1

env_isGlobal(environment, m) == m.env[environment].enclosing = NULL

\* ENV_GLOBAL_HASH_SIZE; ENV_GLOBAL_HASH_MASK is ENV_GLOBAL_HASH_SIZE - 1
ENV_GLOBAL_HASH_SIZE == 512

RECURSIVE djb2(_, _, _)
\* the loop of str_hash from the i-th character on.  The hash is kept modulo
\* ENV_GLOBAL_HASH_SIZE, which divides the range of unsigned long: the
\* result is the hash's bits under ENV_GLOBAL_HASH_MASK
djb2(str, i, hash) ==
    IF i > Len(str) THEN hash
    ELSE djb2(str, i + 1, (hash * 33 + str[i]) % ENV_GLOBAL_HASH_SIZE)

\* str_hash(name) & ENV_GLOBAL_HASH_MASK
str_hash(name) == djb2(Spelling[name], 1, 5381 % ENV_GLOBAL_HASH_SIZE)

\* what the read of table[ENV_GLOBAL_HASH_SIZE], one entry past the end of
\* the allocated table, can find: a NULL name, a name that differs from the
\* one searched, or no readable memory
Beyond == {"NULL", "name", "fault"}

\* the entry of the hash table at a position, as its index from 1 in names:
\* GLOBALS_INDEX + 1, or 0 when GLOBALS_NAME is NULL there
tableEntry(position, globals, m) ==
    LET found == {i \in 1..Len(m.env[globals].places) :
                     m.env[globals].places[i] = position}
    IN IF found = {} THEN 0 ELSE CHOOSE i \in found : TRUE

\* ++index; if (index > ENV_GLOBAL_HASH_SIZE) index = 0;
nextIndex(index) == IF index + 1 > ENV_GLOBAL_HASH_SIZE THEN 0 ELSE index + 1

RECURSIVE tableProbe(_, _, _, _)
\* the loop of env_indexOf from a position on: the position of the name or
\* of the first NULL name; -1 when the read past the table faults
tableProbe(name, index, globals, m) ==
    IF index = ENV_GLOBAL_HASH_SIZE /\ tableEntry(index, globals, m) = 0
    THEN CASE m.beyond = "NULL" -> index
           [] m.beyond = "name" -> tableProbe(name, nextIndex(index), globals, m)
           [] m.beyond = "fault" -> -1
    ELSE IF /\ tableEntry(index, globals, m) # 0
            /\ m.env[globals].names[tableEntry(index, globals, m)] # name
    THEN tableProbe(name, nextIndex(index), globals, m)
    ELSE index

RECURSIVE tableReads(_, _, _, _)
\* the positions at which the loop of env_indexOf reads GLOBALS_NAME, from a
\* position on
tableReads(name, index, globals, m) ==
    {index} \cup
    IF index = ENV_GLOBAL_HASH_SIZE /\ tableEntry(index, globals, m) = 0
    THEN IF m.beyond = "name"
         THEN tableReads(name, nextIndex(index), globals, m)
         ELSE {}
    ELSE IF /\ tableEntry(index, globals, m) # 0
            /\ m.env[globals].names[tableEntry(index, globals, m)] # name
    THEN tableReads(name, nextIndex(index), globals, m)
    ELSE {}

\* the position of name in the globals' hash table, or of the free entry
\* where the probing for it ends
env_indexOf(name, globals, m) == tableProbe(name, str_hash(name), globals, m)

\* the rest of env_defineGlobal once env_indexOf has returned hashIndex
defineGlobalAt(hashIndex, var, value, globals, m) ==
    IF hashIndex < 0 THEN Fault(m, "env_indexOf: table[ENV_GLOBAL_HASH_SIZE] read")
    ELSE IF tableEntry(hashIndex, globals, m) = 0
    THEN IF m.env[globals].slotsUsed = ENV_MAX_CAPACITY
         THEN [m EXCEPT !.error = initError(var, "Too many constants in one chunk.")]
         ELSE [m EXCEPT !.env[globals].names = Append(@, AST[var].name),
                        !.env[globals].places = Append(@, hashIndex),
                        !.env[globals].values = Append(@, value),
                        !.env[globals].slotsUsed = @ + 1,
                        !.error = NoError]
    ELSE [m EXCEPT !.env[globals].values[tableEntry(hashIndex, globals, m)] = value,
                   !.error = NoError]

env_defineGlobal(var, value, globals, m) ==
    defineGlobalAt(env_indexOf(AST[var].name, globals, m), var, value, globals, m)

\* env_defineLocal; var is the token of the error and name the identifier
\* defined.  A local environment stores no names: names records here the
\* identifier each of its slots was defined for
defineLocalAs(name, var, value, environment, m) ==
    IF env_isGlobal(environment, m)
    THEN Fault(m, "env_defineLocal: assert(!env_isGlobal(environment))")
    ELSE IF m.env[environment].slotsUsed < ENV_MAX_CAPACITY
    THEN [m EXCEPT !.env[environment].values = Append(@, value),
                   !.env[environment].names = Append(@, name),
                   !.env[environment].slotsUsed = @ + 1,
                   !.error = NoError]
    ELSE [m EXCEPT !.error = initError(var, "Too many constants in one chunk.")]

env_defineLocal(var, value, environment, m) ==
    defineLocalAs(AST[var].name, var, value, environment, m)

env_define(var, value, environment, m) ==
    IF Stopped(m) THEN m
    ELSE IF env_isGlobal(environment, m) THEN env_defineGlobal(var, value, environment, m)
    ELSE env_defineLocal(var, value, environment, m)

\* env_defineThis and env_defineSuper; type is the type asserted
env_defineSlot(type, value, environment, m) ==
    IF Stopped(m) THEN m
    ELSE IF env_isGlobal(environment, m)
    THEN Fault(m, "env_defineThis: assert(!env_isGlobal(environment))")
    ELSE IF value = NULL THEN Fault(m, "env_defineThis: NULL dereferenced")
    ELSE IF m.obj[value].type # type THEN Fault(m, "env_defineThis: assert(value->type)")
    ELSE [m EXCEPT !.env[environment].values = Append(@, value),
                   !.env[environment].names =
                       Append(@, IF type = "OT_CLASS" THEN "super" ELSE "this"),
                   !.env[environment].slotsUsed = @ + 1]

\* the rest of env_defineNative once env_indexOf has returned hashIndex
defineNativeAt(hashIndex, name, value, globals, m) ==
    IF hashIndex < 0 THEN Fault(m, "env_indexOf: table[ENV_GLOBAL_HASH_SIZE] read")
    ELSE IF tableEntry(hashIndex, globals, m) # 0
    THEN Fault(m, "env_defineNative: assert(GLOBALS_NAME(globals, hashIndex) == NULL)")
    ELSE [m EXCEPT !.env[globals].names = Append(@, name),
                   !.env[globals].places = Append(@, hashIndex),
                   !.env[globals].values = Append(@, value),
                   !.env[globals].slotsUsed = @ + 1]

env_defineNative(name, value, globals, m) ==
    IF ~(m.env[globals].slotsUsed < ENV_MAX_CAPACITY)
    THEN Fault(m, "env_defineNative: assert(globals->slotsUsed < ENV_MAX_CAPACITY)")
    ELSE defineNativeAt(env_indexOf(name, globals, m), name, value, globals, m)

RECURSIVE env_ancestor(_, _, _)
\* NULL when the chain ends before distance links (the assert in the loop)
env_ancestor(distance, environment, m) ==
    IF distance = 0 \/ environment = NULL THEN environment
    ELSE env_ancestor(distance - 1, m.env[environment].enclosing, m)

\* the slot access is recorded
Probed(index, e, m) ==
    [m EXCEPT !.probe.slot = TRUE, !.probe.index = index,
              !.probe.slotsUsed = m.env[e].slotsUsed]

\* the end of env_getAt, in the environment the walk reached
env_getSlot(index, e, m) ==
    IF e = NULL THEN Fault(m, "env_ancestor: assert(environment != NULL)")
    ELSE IF ~(index >= 0 /\ index < m.env[e].slotsUsed)
    THEN Fault(Probed(index, e, m), "env_getAt: assert(index < env->slotsUsed)")
    ELSE IF m.env[e].values[index + 1] = NULL THEN newNil(Probed(index, e, m))
    ELSE dup(m.env[e].values[index + 1], Probed(index, e, m))

env_getAt(distance, index, environment, m) ==
    IF Stopped(m) THEN m
    ELSE IF env_isGlobal(environment, m)
    THEN Fault(m, "env_getAt: assert(!env_isGlobal(environment))")
    ELSE [env_getSlot(index, env_ancestor(distance, environment, m), m)
             EXCEPT !.error = NoError]

env_assignSlot(value, index, e, m) ==
    IF e = NULL THEN Fault(m, "env_ancestor: assert(environment != NULL)")
    ELSE IF ~(index >= 0 /\ index < m.env[e].slotsUsed)
    THEN Fault(Probed(index, e, m), "env_assignAt: assert(index < env->slotsUsed)")
    ELSE [Probed(index, e, m) EXCEPT !.env[e].values[index + 1] = value]

env_assignAt(value, distance, index, environment, m) ==
    IF value = NULL THEN Fault(m, "env_assignAt: assert(value != NULL)")
    ELSE env_assignSlot(value, index, env_ancestor(distance, environment, m), m)

\* the rest of env_getGlobal once env_indexOf has returned hashIndex
getGlobalAt(hashIndex, identifier, globals, m) ==
    IF hashIndex < 0 THEN Fault(m, "env_indexOf: table[ENV_GLOBAL_HASH_SIZE] read")
    ELSE IF tableEntry(hashIndex, globals, m) # 0
    THEN IF m.env[globals].values[tableEntry(hashIndex, globals, m)] = NULL
         THEN [newNil(m) EXCEPT !.error = NoError]
         ELSE [dup(m.env[globals].values[tableEntry(hashIndex, globals, m)], m)
                  EXCEPT !.error = NoError]
    ELSE [m EXCEPT !.ret = NULL,
                   !.error = initError(identifier,
                                 "Undefined variable '" \o AST[identifier].name \o "'.")]

env_getGlobal(identifier, globals, m) ==
    getGlobalAt(env_indexOf(AST[identifier].name, globals, m), identifier, globals, m)

\* the rest of env_assignGlobal once env_indexOf has returned hashIndex
assignGlobalAt(hashIndex, identifier, value, globals, m) ==
    IF hashIndex < 0 THEN Fault(m, "env_indexOf: table[ENV_GLOBAL_HASH_SIZE] read")
    ELSE IF tableEntry(hashIndex, globals, m) # 0
    THEN [m EXCEPT !.env[globals].values[tableEntry(hashIndex, globals, m)] = value,
                   !.error = NoError]
    ELSE [m EXCEPT !.error = initError(identifier,
                                 "Undefined variable '" \o AST[identifier].name \o "'.")]

env_assignGlobal(identifier, value, globals, m) ==
    IF value = NULL THEN Fault(m, "env_assignGlobal: assert(value != NULL)")
    ELSE assignGlobalAt(env_indexOf(AST[identifier].name, globals, m),
                        identifier, value, globals, m)

(* ---- interpreter.c: variables ---- *)
\* localsGet: the side-table entry of the node, NoLocal for none
localsGet(expr, m) == m.it.locals[expr]

\* the loop of localsGet ends at the entry of the expression or at a free
\* entry: it does not end for an expression without entry when every entry
\* is taken
localsGetEnds(expr, m) ==
    \/ localsGet(expr, m) # NoLocal
    \/ localsCount(m.it.locals) < LOCALS_HASH_MAP_SIZE

lookUpVariable(identifier, expr, m) ==
    IF Stopped(m) THEN m
    ELSE IF ~localsGetEnds(expr, m)
    THEN Fault(m, "localsGet: endless loop")
    ELSE throwIfError(
             IF localsGet(expr, m) # NoLocal
             THEN env_getAt(localsGet(expr, m).depth, localsGet(expr, m).index,
                            m.it.environment, m)
             ELSE env_getGlobal(identifier, m.it.globals, m))

assignVariable(identifier, expr, value, m) ==
    IF Stopped(m) THEN m
    ELSE IF ~localsGetEnds(expr, m)
    THEN Fault(m, "localsGet: endless loop")
    ELSE IF localsGet(expr, m) # NoLocal
    THEN env_assignAt(value, localsGet(expr, m).depth, localsGet(expr, m).index,
                      m.it.environment, m)
    ELSE throwIfError(env_assignGlobal(identifier, value, m.it.globals, m))

(***************************************************************************)
(* lox_function.c, lox_class.c, lox_instance.c                             *)
(***************************************************************************)
\* LOX_INSTANCE_MAX_FIELDS (256 in common.h), scaled down
LOX_INSTANCE_MAX_FIELDS == 3

\* the position of the first entry called name in a method or field table,
\* or 0
entryIndex(name, table) ==
    LET found == {i \in 1..Len(table) : table[i].name = name}
    IN IF found = {} THEN 0 ELSE CHOOSE i \in found : \A j \in found : i <= j

\* function_bind after obj_wrapInstance: this is defined and the function is
\* built over the new environment
function_bindThis(function, environment, m) ==
    function_init(m.fun[function].declaration, environment,
                  m.fun[function].isInitializer,
                  env_defineSlot("OT_INSTANCE", m.ret, environment, m))

\* function_bind after env_init
function_bindIn(function, instance, m) ==
    IF Stopped(m) THEN m
    ELSE IF m.error # NoError THEN [m EXCEPT !.ret = NULL]
    ELSE function_bindThis(function, m.ret, wrapInstance(instance, m))

function_bind(function, instance, m) ==
    function_bindIn(function, instance,
                    newEnvironment(m.fun[function].closure, m))

RECURSIVE findMethod(_, _, _, _)
\* findMethod: the class's own table, then its ancestors'; ret is the bound
\* function or NULL
findMethod(instance, klass, name, m) ==
    IF Stopped(m) THEN m
    ELSE IF entryIndex(name, m.cls[klass].methods) # 0
    THEN function_bind(m.cls[klass].methods[entryIndex(name, m.cls[klass].methods)].function,
                       instance, m)
    ELSE IF m.cls[klass].superClass # NULL
    THEN findMethod(instance, m.cls[klass].superClass, name, m)
    ELSE [m EXCEPT !.ret = NULL, !.error = NoError]

RECURSIVE NearestEntry(_, _, _)
\* the function the nearest class of the chain of klass declares under name,
\* or NULL
NearestEntry(klass, name, m) ==
    IF entryIndex(name, m.cls[klass].methods) # 0
    THEN m.cls[klass].methods[entryIndex(name, m.cls[klass].methods)].function
    ELSE IF m.cls[klass].superClass = NULL THEN NULL
    ELSE NearestEntry(m.cls[klass].superClass, name, m)

\* findClassMethod: the class's own table only; the function or NULL
findClassMethod(methods, name) ==
    IF entryIndex(name, methods) = 0 THEN NULL
    ELSE methods[entryIndex(name, methods)].function

\* class_arity, on the tables classInit is given
class_arity(methods, m) ==
    IF findClassMethod(methods, "init") = NULL THEN 0
    ELSE Len(AST[m.fun[findClassMethod(methods, "init")].declaration].params)

\* classInit: the arity of the callable is computed now
classInit(name, superClass, methods, m) ==
    IF Stopped(m) THEN m
    ELSE [m EXCEPT !.cls = Append(@, [alive |-> TRUE, marked |-> GC_CLEAR,
                                      name |-> name, superClass |-> superClass,
                                      methods |-> methods,
                                      arity |-> class_arity(methods, m)]),
                   !.ret = Len(m.cls) + 1]

releaseClosure(method, m) ==
    IF Stopped(m) THEN m ELSE env_release(m.fun[method].closure, m)

\* instanceGet after findMethod
instanceGetMethod(property, m) ==
    IF Stopped(m) THEN m
    ELSE IF m.error # NoError THEN [m EXCEPT !.ret = NULL]
    ELSE IF m.ret # NULL THEN releaseClosure(m.ret, wrapFunction(m.ret, m))
    ELSE [m EXCEPT !.error = initError(property,
                                 "Undefined property '" \o AST[property].name \o "'.")]

\* an instanceGet that looks for a method first
instanceGet_MethodFirst(instance, property, m) ==
    IF Stopped(m) THEN m
    ELSE IF NearestEntry(m.inst[instance].klass, AST[property].name, m) = NULL
            /\ entryIndex(AST[property].name, m.inst[instance].fields) # 0
    THEN [dup(m.inst[instance].fields[
                  entryIndex(AST[property].name, m.inst[instance].fields)].value, m)
             EXCEPT !.error = NoError]
    ELSE instanceGetMethod(property,
             findMethod(instance, m.inst[instance].klass, AST[property].name, m))

\* instanceGet: a field shadows a method
instanceGet(instance, property, m) ==
    IF Stopped(m) THEN m
    ELSE IF entryIndex(AST[property].name, m.inst[instance].fields) # 0
    THEN [dup(m.inst[instance].fields[
                  entryIndex(AST[property].name, m.inst[instance].fields)].value, m)
             EXCEPT !.error = NoError]
    ELSE instanceGetMethod(property,
             findMethod(instance, m.inst[instance].klass, AST[property].name, m))

instanceSet(instance, property, value, m) ==
    IF Stopped(m) THEN m
    ELSE IF entryIndex(AST[property].name, m.inst[instance].fields) = 0
    THEN IF Len(m.inst[instance].fields) >= LOX_INSTANCE_MAX_FIELDS
         THEN Fault(m, "instanceSet: assert(fieldsCount < LOX_INSTANCE_MAX_FIELDS)")
         ELSE [m EXCEPT !.inst[instance].fields =
                            Append(@, [name |-> AST[property].name, value |-> value])]
    ELSE [m EXCEPT !.inst[instance].fields[
                       entryIndex(AST[property].name, m.inst[instance].fields)].value = value]

(* ---- objects.c: obj_stringify ---- *)
obj_stringify(object, m) ==
    IF object = NULL THEN "nil"
    ELSE LET x == m.obj[object]
         IN CASE x.type = "OT_BOOLEAN" -> IF x.b THEN "true" ELSE "false"
              [] x.type = "OT_CALLABLE" -> "<fn >"
              [] x.type = "OT_CLASS" -> m.cls[x.p].name
              [] x.type = "OT_INSTANCE" -> m.cls[m.inst[x.p].klass].name \o " instance"
              [] x.type = "OT_FUNCTION" ->
                    "<fn " \o AST[m.fun[x.p].declaration].name \o ">"
              [] x.type = "OT_NIL" -> "nil"
              [] x.type = "OT_NUMBER" -> ToString(x.n)
              [] x.type = "OT_STRING" -> x.s
              [] x.type = "OT_ARGUMENTS" -> "[args]"
              [] OTHER -> "?"

\* the type of a value; reading it through NULL is an invalid access
typeOf(object, m) == IF object = NULL THEN "NULL" ELSE m.obj[object].type

(***************************************************************************)
(* interpreter.c: the expression visitors.  Each takes the frame f of the  *)
(* handler as the step finds it and the machine m.                         *)
(***************************************************************************)
lockLocal(r, token, m) ==
    IF Stopped(m) THEN m ELSE GC_LOCK(Top(m)[r], token, m)

interpreter_visitLiteralExpr(f, m) ==
    ReturnRet(CASE AST[f.n].lit = "number" -> newNumber(AST[f.n].num, m)
                [] AST[f.n].lit = "string" -> newString(AST[f.n].name, m)
                [] AST[f.n].lit = "true" -> newBoolean(TRUE, m)
                [] AST[f.n].lit = "false" -> newBoolean(FALSE, m)
                [] AST[f.n].lit = "nil" -> newNil(m))

interpreter_visitVariableExpr(f, m) == ReturnRet(lookUpVariable(f.n, f.n, m))

interpreter_visitThisExpr(f, m) == ReturnRet(lookUpVariable(f.n, f.n, m))

interpreter_visitGroupingExpr(f, m) ==
    IF f.pc = "start" THEN evaluate(AST[f.n].x, "done", m)
    ELSE Return(m.val, m)

\* assignVariable(expr->name, expr, duplicate, interpreter)
assignDuplicate(expr, m) ==
    IF Stopped(m) THEN m ELSE assignVariable(expr, expr, Top(m).b, m)

interpreter_visitAssignExpr(f, m) ==
    IF f.pc = "start" THEN evaluate(AST[f.n].x, "value", m)
    ELSE IF m.val = NULL THEN Fail("visitAssignExpr: assert(value != NULL)", m)
    ELSE Return(m.val,
             PopLock(PopLock(assignDuplicate(f.n,
                 lockLocal("b", f.n,
                     Keep("b", dup(m.val, GC_LOCK(m.val, f.n, Take("a", m)))))))))

\* the number an arithmetic or comparison operator yields
arithmetic(operator, l, r) ==
    CASE operator = "-" -> l - r
      [] operator = "+" -> l + r
      [] operator = "*" -> l * r
      [] operator = "/" -> l \div r

comparison(operator, l, r) ==
    CASE operator = ">" -> l > r
      [] operator = ">=" -> l >= r
      [] operator = "<" -> l < r
      [] operator = "<=" -> l <= r

\* the switch of visitBinaryExpr on the operator; both operands are pinned
binaryResult(token, operator, left, right, m) ==
    IF Stopped(m) THEN m
    ELSE IF left = NULL \/ right = NULL
    THEN Fault(m, "visitBinaryExpr: NULL dereferenced")
    ELSE LET l == m.obj[left]
             r == m.obj[right]
             numbers == l.type = "OT_NUMBER" /\ r.type = "OT_NUMBER"
         IN CASE operator \in {">", ">=", "<", "<="} ->
                   IF numbers THEN newBoolean(comparison(operator, l.n, r.n), m)
                   ELSE interpreter_throwNewError(token, "Operands must be numbers.", m)
              [] operator \in {"-", "*"} ->
                   IF numbers THEN newNumber(arithmetic(operator, l.n, r.n), m)
                   ELSE interpreter_throwNewError(token, "Operands must be numbers.", m)
              [] operator = "/" ->
                   IF ~numbers
                   THEN interpreter_throwNewError(token, "Operands must be numbers.", m)
                   ELSE IF r.n = 0
                   THEN interpreter_throwNewError(token, "Division by zero.", m)
                   ELSE IF l.n % r.n # 0
                   THEN Fault(m, "model: a quotient that is no integer")
                   ELSE newNumber(arithmetic(operator, l.n, r.n), m)
              [] operator = "+" ->
                   IF numbers THEN newNumber(l.n + r.n, m)
                   ELSE IF l.type = "OT_STRING" /\ r.type = "OT_STRING"
                   THEN newString(l.s \o r.s, m)
                   ELSE IF l.type = "OT_STRING" /\ r.type = "OT_NUMBER"
                   THEN newString(l.s \o obj_stringify(right, m), m)
                   ELSE IF r.type = "OT_STRING" /\ l.type = "OT_NUMBER"
                   THEN newString(obj_stringify(left, m) \o r.s, m)
                   ELSE interpreter_throwNewError(token,
                            "Operands must be two numbers or two strings.", m)
              [] operator = "!=" -> newBoolean(~isEqual(left, right, m), m)
              [] operator = "==" -> newBoolean(isEqual(left, right, m), m)

\* a visitBinaryExpr that checks the left operand of an operator on numbers
\* before it evaluates the right one
interpreter_visitBinaryExpr_CheckFirst(f, m) ==
    CASE f.pc = "start" -> evaluate(AST[f.n].x, "left", m)
      [] f.pc = "left" ->
            IF /\ m.val # NULL
               /\ AST[f.n].name \in {">", ">=", "<", "<=", "-", "*", "/"}
               /\ m.obj[m.val].type # "OT_NUMBER"
            THEN interpreter_throwNewError(f.n, "Operands must be numbers.", m)
            ELSE evaluate(AST[f.n].y, "right", GC_LOCK(m.val, f.n, Take("a", m)))
      [] f.pc = "right" ->
            ReturnRet(PopLock(PopLock(
                binaryResult(f.n, AST[f.n].name, f.a, m.val,
                             GC_LOCK(m.val, f.n, Take("b", m))))))

interpreter_visitBinaryExpr(f, m) ==
    CASE f.pc = "start" -> evaluate(AST[f.n].x, "left", m)
      [] f.pc = "left" ->
            evaluate(AST[f.n].y, "right", GC_LOCK(m.val, f.n, Take("a", m)))
      [] f.pc = "right" ->
            ReturnRet(PopLock(PopLock(
                binaryResult(f.n, AST[f.n].name, f.a, m.val,
                             GC_LOCK(m.val, f.n, Take("b", m))))))

(* ---- lox_callable.c: the native functions ---- *)
lox_clock(m) == newNumber(0, m)

lox_env(m) ==
    newNil([m EXCEPT !.out = Append(@, [stream |-> "stdout", text |-> "env", line |-> 0])])

lox_quit(m) ==
    IF m.it.isREPL THEN interpreter_throwExit(m)
    ELSE [m EXCEPT !.stack = <<>>, !.run.exitCode = 0]

lox_help(m) ==
    [m EXCEPT !.out = Append(@, [stream |-> "stdout", text |-> "help", line |-> 0]),
              !.ret = NULL]

interpreter_call(function, m) ==
    IF Stopped(m) THEN m
    ELSE CASE function = "clock" -> lox_clock(m)
           [] function = "env" -> lox_env(m)
           [] function = "quit" -> lox_quit(m)
           [] function = "help" -> lox_help(m)

\* LOX_MAX_ARG_COUNT
LOX_MAX_ARG_COUNT == 8

\* the call itself, once the arguments are evaluated
callDispatch(f, m) ==
    LET count == m.arg[f.ar].count
        callee == m.obj[f.a]
        type == typeOf(f.a, m)
        arity == CASE type = "OT_CALLABLE" -> callee.n
                   [] type = "OT_FUNCTION" -> Len(AST[m.fun[callee.p].declaration].params)
                   [] type = "OT_CLASS" -> m.cls[callee.p].arity
                   [] OTHER -> 0
    IN IF type = "NULL" THEN Fault(m, "visitCallExpr: NULL dereferenced")
       ELSE IF type \notin {"OT_CALLABLE", "OT_FUNCTION", "OT_CLASS"}
       THEN interpreter_throwNewError(f.n, "Can only call functions and classes.",
                [m EXCEPT !.probe.notCallable = TRUE, !.probe.property = f.n])
       ELSE IF count # arity
       THEN interpreter_throwNewError(f.n,
                "Expected " \o ToString(arity) \o " arguments but got "
                    \o ToString(count) \o ".", m)
       ELSE CASE type = "OT_CALLABLE" ->
                    ReturnRet(PopLock(PopLock(interpreter_call(callee.s, m))))
              [] type = "OT_FUNCTION" ->
                    Push([Frame("function_call", m.fun[callee.p].declaration)
                             EXCEPT !.fn = callee.p, !.ar = f.ar],
                         Goto("called", m))
              [] type = "OT_CLASS" ->
                    Push([Frame("class_call", f.n) EXCEPT !.kl = callee.p, !.ar = f.ar],
                         Goto("called", m))

\* a loop over the argument expressions that takes them from the last one
callArguments_Backwards(m) ==
    IF Stopped(m) THEN m
    ELSE IF Top(m).i < Len(AST[Top(m).n].xs)
    THEN evaluate(AST[Top(m).n].xs[Len(AST[Top(m).n].xs) - Top(m).i], "argument",
                  Set("i", Top(m).i + 1, m))
    ELSE callDispatch(Top(m), m)

\* the loop over the argument expressions
callArguments(m) ==
    IF Stopped(m) THEN m
    ELSE IF Top(m).i < Len(AST[Top(m).n].xs)
    THEN evaluate(AST[Top(m).n].xs[Top(m).i + 1], "argument",
                  Set("i", Top(m).i + 1, m))
    ELSE callDispatch(Top(m), m)

argumentsNew(m) == IF Stopped(m) THEN m ELSE argumentsInit(m)

wrapLocalArguments(m) == IF Stopped(m) THEN m ELSE wrapArguments(Top(m).ar, m)

\* arguments->values[arguments->count++] = argument
storeArgument(a, m) ==
    IF m.arg[a].count >= LOX_MAX_ARG_COUNT
    THEN Fault(m, "visitCallExpr: assert(arguments->count < LOX_MAX_ARG_COUNT)")
    ELSE [m EXCEPT !.arg[a].values = Append(@, m.val),
                   !.arg[a].count = @ + 1,
                   !.val = NULL]

interpreter_visitCallExpr(f, m) ==
    CASE f.pc = "start" -> evaluate(AST[f.n].x, "callee", m)
      [] f.pc = "callee" ->
            callArguments(lockLocal("b", f.n, Keep("b", wrapLocalArguments(
                Keep("ar", argumentsNew(GC_LOCK(m.val, f.n, Take("a", m))))))))
      [] f.pc = "argument" -> callArguments(storeArgument(f.ar, m))
      [] f.pc = "called" ->
            IF f.error # NoError
            THEN IF f.error.token # NULL
                 THEN Fault(m, "visitCallExpr: assert(error->token == NULL)")
                 ELSE interpreter_throwError([f.error EXCEPT !.token = f.n], m)
            ELSE Return(m.val, PopLock(PopLock(m)))

\* the property access is recorded
accessed(instance, property, funs, m) ==
    IF m.fault # "" THEN m
    ELSE [m EXCEPT !.probe.access = TRUE, !.probe.instance = instance,
                   !.probe.property = property, !.probe.funs = funs]

interpreter_visitGetExpr(f, m) ==
    IF f.pc = "start" THEN evaluate(AST[f.n].x, "object", m)
    ELSE IF m.val = NULL THEN Fail("visitGetExpr: assert(object != NULL)", m)
    ELSE IF m.obj[m.val].type = "OT_INSTANCE"
    THEN accessed(m.obj[m.val].p, f.n, Len(m.fun),
             ReturnRet(throwIfError(PopLock(
                 instanceGet(m.obj[m.val].p, f.n,
                     GC_LOCK(m.val, f.n,
                         Set("ins", m.obj[m.val].p, Take("a", m))))))))
    ELSE interpreter_throwNewError(f.n, "Only instances have properties.", m)

\* a visitLogicalExpr that evaluates the right operand whatever the left is
interpreter_visitLogicalExpr_Eager(f, m) ==
    CASE f.pc = "start" -> evaluate(AST[f.n].x, "left", m)
      [] f.pc = "left" ->
            IF m.val = NULL THEN Fail("isTruthy: NULL dereferenced", m)
            ELSE evaluate(AST[f.n].y, "right", GC_LOCK(m.val, f.n, Take("a", m)))
      [] f.pc = "right" ->
            IF AST[f.n].name = "or" /\ isTruthy(f.a, m) THEN Return(f.a, PopLock(m))
            ELSE IF AST[f.n].name = "and" /\ ~isTruthy(f.a, m)
            THEN Return(f.a, PopLock(m))
            ELSE Return(m.val, PopLock(m))

interpreter_visitLogicalExpr(f, m) ==
    CASE f.pc = "start" -> evaluate(AST[f.n].x, "left", m)
      [] f.pc = "left" ->
            IF m.val = NULL THEN Fail("isTruthy: NULL dereferenced", m)
            ELSE IF AST[f.n].name = "or" /\ isTruthy(m.val, m) THEN Return(m.val, m)
            ELSE IF AST[f.n].name = "and" /\ ~isTruthy(m.val, m) THEN Return(m.val, m)
            ELSE evaluate(AST[f.n].y, "right", GC_LOCK(m.val, f.n, Take("a", m)))
      [] f.pc = "right" -> Return(m.val, PopLock(m))

\* instanceSet(instance, expr->name, duplicate)
setDuplicate(property, m) ==
    IF Stopped(m) THEN m ELSE instanceSet(Top(m).ins, property, m.ret, m)

interpreter_visitSetExpr(f, m) ==
    CASE f.pc = "start" -> evaluate(AST[f.n].x, "object", m)
      [] f.pc = "object" ->
            IF m.val = NULL THEN Fail("visitSetExpr: assert(object != NULL)", m)
            ELSE IF m.obj[m.val].type = "OT_INSTANCE"
            THEN evaluate(AST[f.n].y, "value",
                     GC_LOCK(m.val, f.n, Set("ins", m.obj[m.val].p, Take("a", m))))
            ELSE interpreter_throwNewError(f.n, "Only instances have fields.", m)
      [] f.pc = "value" ->
            IF m.val # NULL
            THEN Return(m.val,
                     PopLock(PopLock(setDuplicate(f.n,
                         dup(m.val, GC_LOCK(m.val, f.n, Take("b", m)))))))
            ELSE Return(NULL, PopLock(m))

\* visitSuperExpr after findMethod: the bound method is wrapped, the two
\* pins are dropped, the method's environment is released
superMethod(expr, m) ==
    IF Stopped(m) THEN m
    ELSE IF m.ret = NULL
    THEN interpreter_throwNewError(expr,
             "Undefined property '" \o AST[expr].name \o "'.", m)
    ELSE ReturnRet(releaseClosure(m.ret, PopLock(PopLock(wrapFunction(m.ret, m)))))

\* obj_unwrapInstance(object), obj_unwrapClass(superClass) and findMethod
superFind(expr, m) ==
    IF Stopped(m) THEN m
    ELSE IF m.obj[Top(m).b].type # "OT_INSTANCE"
    THEN Fault(m, "obj_unwrapInstance: assert(obj->type == OT_INSTANCE)")
    ELSE IF m.obj[Top(m).a].type # "OT_CLASS"
    THEN Fault(m, "obj_unwrapClass: assert(obj->type == OT_CLASS)")
    ELSE findMethod(m.obj[Top(m).b].p, m.obj[Top(m).a].p, AST[expr].name, m)

\* the evaluation of a super expression is recorded
superEvaluated(expr, before, m) ==
    IF m.fault # "" THEN m
    ELSE [m EXCEPT !.probe.super = TRUE, !.probe.property = expr,
                   !.probe.funs = Len(before.fun),
                   !.probe.superIndex = localsGet(expr, before).index,
                   !.probe.superEnv =
                       env_ancestor(localsGet(expr, before).depth,
                                    before.it.environment, before),
                   !.probe.thisEnv =
                       env_ancestor(localsGet(expr, before).depth - 1,
                                    before.it.environment, before)]

\* a super expression that looks for this where it looks for super
superThis_SameLevel(expr, m) ==
    env_getAt(localsGet(expr, m).depth, 0, m.it.environment, m)

\* visitSuperExpr: this is one level nearer than super
superThis(expr, m) ==
    env_getAt(localsGet(expr, m).depth - 1, 0, m.it.environment, m)

interpreter_visitSuperExpr(f, m) ==
    superEvaluated(f.n, m, superMethod(f.n, throwIfError(superFind(f.n,
        lockLocal("b", f.n, Keep("b", throwIfError(
            superThis(f.n,
                lockLocal("a", f.n, Keep("a", throwIfError(
                    env_getAt(localsGet(f.n, m).depth, localsGet(f.n, m).index,
                              m.it.environment, m))))))))))))

\* the switch of visitUnaryExpr
unaryResult(token, operator, right, m) ==
    IF Stopped(m) THEN m
    ELSE IF right = NULL THEN Fault(m, "visitUnaryExpr: NULL dereferenced")
    ELSE IF operator = "!" THEN newBoolean(~isTruthy(right, m), m)
    ELSE IF m.obj[right].type = "OT_NUMBER" THEN newNumber(0 - m.obj[right].n, m)
    ELSE interpreter_throwNewError(token, "Operand must be a number.", m)

interpreter_visitUnaryExpr(f, m) ==
    IF f.pc = "start" THEN evaluate(AST[f.n].x, "right", m)
    ELSE ReturnRet(PopLock(unaryResult(f.n, AST[f.n].name, m.val,
                                       GC_LOCK(m.val, f.n, Take("a", m)))))

(***************************************************************************)
(* interpreter.c: blocks, calls and the statement visitors                 *)
(***************************************************************************)
\* an executeBlock that leaves the block's environment current
restoreEnvironment_Skip(m) == m

\* interpreter->environment = previous, at the end of executeBlock
restoreEnvironment(m) ==
    IF Stopped(m) THEN m ELSE [m EXCEPT !.it.environment = Top(m).prev]

\* the loop of interpreter_executeBlock
blockNext(m) ==
    IF Stopped(m) THEN m
    ELSE IF Top(m).i < Len(AST[Top(m).n].xs)
    THEN execute(AST[Top(m).n].xs[Top(m).i + 1], "statement",
                 Set("i", Top(m).i + 1, m))
    ELSE Return(NULL, restoreEnvironment(m))

\* interpreter_executeBlock; the statements are those of the node (a block
\* or a function declaration), e is the environment given
interpreter_executeBlock(f, m) ==
    IF f.pc = "start"
    THEN blockNext([Set("prev", m.it.environment, m) EXCEPT !.it.environment = f.e])
    ELSE IF m.val # NULL THEN Return(m.val, restoreEnvironment(m))
    ELSE blockNext(m)

\* the call of interpreter_executeBlock on the environment just made
executeBlockIn(node, pc, m) ==
    IF Stopped(m) THEN m
    ELSE Push([Frame("executeBlock", node) EXCEPT !.e = m.ret],
              Goto(pc, Keep("e", m)))

RECURSIVE defineParameters(_, _, _, _, _)
\* the parameter loop of function_call
defineParameters(declaration, args, index, environment, m) ==
    IF Stopped(m) \/ index > Len(AST[declaration].params) THEN m
    ELSE defineParameters(declaration, args, index + 1, environment,
             defineLocalAs(AST[declaration].params[index], declaration,
                           m.arg[args].values[index], environment, m))

\* function_call from env_init on
functionEnter(f, m) ==
    IF Stopped(m) THEN m
    ELSE IF m.error # NoError THEN ReturnError(m.error, m)
    ELSE executeBlockIn(f.n, "body",
             defineParameters(f.n, f.ar, 1, m.ret, m))

\* a function_call that yields what the body returned, initializer or not
functionResult_Returned(f, m) ==
    IF m.val # NULL THEN Return(m.val, m) ELSE ReturnRet(newNil(m))

\* function_call after the body: the value returned
functionResult(f, m) ==
    IF m.fun[f.fn].isInitializer
    THEN ReturnRet(env_getAt(0, 0, m.fun[f.fn].closure, Drop(m)))
    ELSE IF m.val # NULL THEN Return(m.val, m)
    ELSE ReturnRet(newNil(m))

\* the value of the slot at index of an environment, as the instance it
\* refers to
instanceAt(environment, index, m) ==
    IF environment = NULL \/ index >= m.env[environment].slotsUsed
           \/ m.env[environment].values[index + 1] = NULL
           \/ m.obj[m.env[environment].values[index + 1]].type # "OT_INSTANCE"
    THEN NULL
    ELSE m.obj[m.env[environment].values[index + 1]].p

\* the end of a function_call is recorded: before is the machine the body
\* left, m the one function_call leaves
functionReturned(f, before, m) ==
    IF Stopped(m) \/ m.val = NULL THEN m
    ELSE [m EXCEPT !.probe.returned = TRUE,
                   !.probe.initializer = m.fun[f.fn].isInitializer,
                   !.probe.fell = before.val = NULL,
                   !.probe.same = m.val = before.val,
                   !.probe.type = m.obj[m.val].type,
                   !.probe.referent = m.obj[m.val].p,
                   !.probe.this = instanceAt(m.fun[f.fn].closure, 0, m)]

function_call(f, m) ==
    IF f.pc = "start"
    THEN IF m.arg[f.ar].count # Len(AST[f.n].params)
         THEN Fault([m EXCEPT !.probe.call = TRUE,
                              !.probe.count = m.arg[f.ar].count,
                              !.probe.arity = Len(AST[f.n].params)],
                    "function_call: assert(args->count == arity)")
         ELSE functionEnter(f,
                  newEnvironment(m.fun[f.fn].closure,
                      [m EXCEPT !.probe.call = TRUE,
                                !.probe.count = m.arg[f.ar].count,
                                !.probe.arity = Len(AST[f.n].params)]))
    ELSE functionReturned(f, m, functionResult(f, Set("e", NULL, releaseEnvironment(f.e, m))))

\* the end of a class_call is recorded
instanceMade(f, m) ==
    IF Stopped(m) \/ m.val = NULL THEN m
    ELSE [m EXCEPT !.probe.constructed = TRUE,
                   !.probe.made = f.ins,
                   !.probe.got = IF m.obj[m.val].type = "OT_INSTANCE"
                                 THEN m.obj[m.val].p ELSE NULL]

\* class_call after findMethod
classInitialize(f, m) ==
    IF Stopped(m) THEN m
    ELSE IF m.error # NoError THEN ReturnError(m.error, m)
    ELSE IF m.ret # NULL
    THEN Push([Frame("function_call", m.fun[m.ret].declaration)
                  EXCEPT !.fn = m.ret, !.ar = f.ar],
              Goto("initialized", Keep("fn", m)))
    ELSE instanceMade(Top(m), ReturnRet(wrapInstance(Top(m).ins, m)))

\* lox_free(initializer)
freeInitializer(initializer, m) ==
    IF Stopped(m) THEN m ELSE [m EXCEPT !.fun[initializer].alive = FALSE]

class_call(f, m) ==
    IF f.pc = "start"
    THEN classInitialize(f,
             findMethod(Len(m.inst) + 1, f.kl, "init",
                        Keep("ins", instanceInit(f.kl, m))))
    ELSE IF f.error # NoError
    THEN ReturnError(f.error,
             freeInitializer(f.fn, releaseClosure(f.fn, m)))
    ELSE instanceMade(f, Return(m.val, freeInitializer(f.fn, releaseClosure(f.fn, m))))

interpreter_visitBlockStmt(f, m) ==
    IF f.pc = "start"
    THEN executeBlockIn(f.n, "done",
             throwIfError(newEnvironment(m.it.environment, m)))
    ELSE Return(m.val, Set("e", NULL, releaseEnvironment(f.e, m)))

\* the method table visitClassStmt builds: one function_init per method,
\* over closure
classMethods(methods, closure, m) ==
    [m EXCEPT !.fun = @ \o [j \in 1..Len(methods) |->
                               [alive |-> TRUE, marked |-> GC_CLEAR,
                                declaration |-> methods[j],
                                closure |-> closure,
                                isInitializer |-> AST[methods[j]].name = "init"]]]

methodTable(methods, first) ==
    [j \in 1..Len(methods) |->
        [name |-> AST[methods[j]].name, function |-> first + j]]

wrapRetClass(m) == IF Stopped(m) THEN m ELSE wrapClass(m.ret, m)

assignRet(stmt, m) == IF Stopped(m) THEN m ELSE assignVariable(stmt, stmt, m.ret, m)

\* LOX_METHODS_MAX_COUNT (32 in common.h), scaled down: the number of
\* entries visitClassStmt allocates for the method table of a class
LOX_METHODS_MAX_COUNT == 3

\* the method loop of visitClassStmt has no test of methodsCount: the entry
\* of a method after the LOX_METHODS_MAX_COUNT-th is written past the end of
\* the allocated table.  What the write does is not defined: the run is
\* stopped by it, or the entry lands in the memory after the table and the
\* run goes on
methodsWritten(methods, m) ==
    IF Len(methods) > LOX_METHODS_MAX_COUNT /\ m.beyond = "fault"
    THEN Fail("visitClassStmt: methods[LOX_METHODS_MAX_COUNT] written", m)
    ELSE m

\* visitClassStmt from the method loop on; the closure of the methods is the
\* environment of super, or the current environment
classDeclare(stmt, m) ==
    IF Stopped(m) THEN m
    ELSE IF Stopped(methodsWritten(AST[stmt].xs, m))
    THEN methodsWritten(AST[stmt].xs, m)
    ELSE Return(NULL,
             assignRet(stmt, wrapRetClass(
                 classInit(AST[stmt].name,
                     IF Top(m).a = NULL THEN NULL ELSE m.obj[Top(m).a].p,
                     methodTable(AST[stmt].xs, Len(m.fun)),
                     classMethods(AST[stmt].xs,
                         IF Top(m).e # NULL THEN Top(m).e ELSE m.it.environment,
                         m)))))

defineSuper(m) ==
    IF Stopped(m) THEN m ELSE env_defineSlot("OT_CLASS", Top(m).a, Top(m).e, m)

interpreter_visitClassStmt(f, m) ==
    IF f.pc = "start"
    THEN IF AST[f.n].x # NULL
         THEN evaluate(AST[f.n].x, "superclass",
                  throwIfError(env_define(f.n, NULL, m.it.environment, m)))
         ELSE classDeclare(f.n,
                  throwIfError(env_define(f.n, NULL, m.it.environment, m)))
    ELSE IF typeOf(m.val, m) = "NULL"
    THEN Fail("isLoxClass: NULL dereferenced", m)
    ELSE IF typeOf(m.val, m) # "OT_CLASS"
    THEN interpreter_throwNewError(f.n, "Superclass must be a class.", m)
    ELSE classDeclare(f.n,
             defineSuper(Keep("e", throwIfError(PopLock(
                 newEnvironment(m.it.environment,
                     GC_LOCK(m.val, f.n, Take("a", m))))))))

interpreter_visitExpressionStmt(f, m) ==
    IF f.pc = "start" THEN evaluate(AST[f.n].x, "done", m)
    ELSE Return(NULL, m)

defineRet(var, m) ==
    IF Stopped(m) THEN m ELSE env_define(var, m.ret, m.it.environment, m)

wrapRetFunction(m) == IF Stopped(m) THEN m ELSE wrapFunction(m.ret, m)

interpreter_visitFunctionStmt(f, m) ==
    Return(NULL, throwIfError(defineRet(f.n, wrapRetFunction(
        function_init(f.n, m.it.environment, FALSE, m)))))

interpreter_visitIfStmt(f, m) ==
    IF f.pc = "start" THEN evaluate(AST[f.n].x, "condition", m)
    ELSE IF f.pc = "done" THEN Return(m.val, m)
    ELSE IF m.val = NULL THEN Fail("isTruthy: NULL dereferenced", m)
    ELSE IF isTruthy(m.val, m) THEN execute(AST[f.n].y, "done", Drop(m))
    ELSE IF AST[f.n].z # NULL THEN execute(AST[f.n].z, "done", Drop(m))
    ELSE Return(NULL, m)

interpreter_visitPrintStmt(f, m) ==
    IF f.pc = "start" THEN evaluate(AST[f.n].x, "value", m)
    ELSE IF m.val = NULL THEN Fail("visitPrintStmt: assert(value != NULL)", m)
    ELSE Return(NULL,
             [m EXCEPT !.out = Append(@, [stream |-> "stdout",
                                          text |-> obj_stringify(m.val, m),
                                          line |-> 0])])

\* return_init: a Return always carries a value
interpreter_visitReturnStmt(f, m) ==
    IF f.pc = "start" /\ AST[f.n].x # NULL THEN evaluate(AST[f.n].x, "value", m)
    ELSE IF f.pc = "start" \/ m.val = NULL THEN ReturnRet(newNil(Drop(m)))
    ELSE Return(m.val, m)

interpreter_visitVarStmt(f, m) ==
    IF f.pc = "start" /\ AST[f.n].x # NULL THEN evaluate(AST[f.n].x, "value", m)
    ELSE Return(NULL,
             throwIfError(env_define(f.n, IF f.pc = "start" THEN NULL ELSE m.val,
                                     m.it.environment, m)))

\* a visitWhileStmt that goes on looping when its body returned
interpreter_visitWhileStmt_Continues(f, m) ==
    CASE f.pc = "start" -> evaluate(AST[f.n].x, "condition", m)
      [] f.pc = "condition" ->
            IF m.val = NULL THEN Fail("isTruthy: NULL dereferenced", m)
            ELSE IF isTruthy(m.val, m) THEN execute(AST[f.n].y, "body", Drop(m))
            ELSE Return(NULL, m)
      [] f.pc = "body" -> evaluate(AST[f.n].x, "condition", Drop(m))

interpreter_visitWhileStmt(f, m) ==
    CASE f.pc = "start" -> evaluate(AST[f.n].x, "condition", m)
      [] f.pc = "condition" ->
            IF m.val = NULL THEN Fail("isTruthy: NULL dereferenced", m)
            ELSE IF isTruthy(m.val, m) THEN execute(AST[f.n].y, "body", Drop(m))
            ELSE Return(NULL, m)
      [] f.pc = "body" ->
            IF m.val # NULL THEN Return(m.val, m)
            ELSE evaluate(AST[f.n].x, "condition", m)

(***************************************************************************)
(* interpret, and main.c                                                   *)
(***************************************************************************)
\* the statements of the line or file being run
Statements(m) == Sessions[m.run.session].units[m.run.unit]

\* lox_runtimeError: the message and the line of the error's token
lox_runtimeError(error, m) ==
    IF error.token = NULL THEN Fault(m, "lox_runtimeError: NULL dereferenced")
    ELSE [m EXCEPT !.out = Append(@, [stream |-> "stderr",
                                      text |-> error.message,
                                      line |-> AST[error.token].line + 1]),
                   !.run.hadRuntimeError = TRUE]

\* interpreter->environment = interpreter->globals, in both catch cases
restoreGlobals(m) == [m EXCEPT !.it.environment = m.it.globals]

\* interpret: the loop over the top-level statements, and the two catch
\* cases of its setjmp
interpret(f, m) ==
    CASE f.pc = "loop" ->
            IF m.val # NULL THEN Fault(m, "interpret: assert(ret == NULL)")
            ELSE IF f.i < Len(Statements(m))
            THEN execute(Statements(m)[f.i + 1], "loop", Set("i", f.i + 1, m))
            ELSE Return(NULL, m)
      [] f.pc = "RUNTIME_ERROR" ->
            [lox_runtimeError(m.it.runtimeError, gcClearLocks(restoreGlobals(m)))
             EXCEPT !.stack = SubSeq(@, 1, Len(@) - 1)]
      [] f.pc = "EXIT" ->
            [gcClearLocks(restoreGlobals(m))
             EXCEPT !.stack = SubSeq(@, 1, Len(@) - 1)]

\* the end of a REPL round: lox_clearError, interpreter_clearRuntimeError,
\* gcCollect; the loop ends when quit() was called
replRound(m) ==
    [Collected(gcCollect([m EXCEPT !.run.hadError = FALSE,
                                   !.it.runtimeError = NoError,
                                   !.run.unit = @ + 1]))
     EXCEPT !.stack = IF m.it.exitREPL THEN <<>>
                      ELSE <<[m.stack[1] EXCEPT !.pc = "read"]>>,
            !.run.exited = m.it.exitREPL]

\* the resolver's side table is the interpreter's; the probe records the
\* unit resolved, what the resolver reported and the function context it
\* ended in
resolved(r, m) ==
    [m EXCEPT !.it.locals = r.locals,
              !.probe.resolved = m.run.unit,
              !.probe.reports = r.reports,
              !.probe.context = r.currentFunction,
              !.probe.scopes = @ \cup r.ended,
              !.fault = IF m.fault = "" THEN r.fault ELSE m.fault]

\* a REPL round after resolve: interpret runs unless there was an error
replResolved(r, m) ==
    IF r.hadError
    THEN replRound([resolved(r, m) EXCEPT !.run.hadError = TRUE])
    ELSE Push([Frame("interpret", NULL) EXCEPT !.pc = "loop"],
              Goto("round", resolved(r, m)))

\* repl: one line is read, resolved and interpreted; the end of the input
\* ends the loop
repl(f, m) ==
    IF f.pc = "round" THEN replRound(Drop(m))
    ELSE IF m.run.unit > Len(Sessions[m.run.session].units)
    THEN [m EXCEPT !.stack = <<>>, !.run.exited = TRUE]
    ELSE replResolved(resolve(Statements(m), m.it.locals), m)

\* run after resolve
runResolved(r, m) ==
    IF r.hadError
    THEN [resolved(r, m) EXCEPT !.run.hadError = TRUE,
                   !.stack = <<>>, !.run.exited = TRUE, !.run.exitCode = 65]
    ELSE Push([Frame("interpret", NULL) EXCEPT !.pc = "loop"],
              Goto("exit", resolved(r, m)))

\* runFile: run, then the exit code
runFile(f, m) ==
    IF f.pc = "exit"
    THEN [m EXCEPT !.stack = <<>>, !.val = NULL, !.run.exited = TRUE,
                   !.run.exitCode = IF m.run.hadRuntimeError THEN 70 ELSE 0]
    ELSE runResolved(resolve(Statements(m), m.it.locals), m)

interpreter_defineNative(name, arity, m) ==
    env_defineNative(name, m.ret, m.it.globals, m)

defineNatives(isREPL, m) ==
    IF ~isREPL THEN m
    ELSE interpreter_defineNative("env", 0, new("OT_CALLABLE", NULL, FALSE, 0, "env",
         interpreter_defineNative("quit", 0, new("OT_CALLABLE", NULL, FALSE, 0, "quit",
         interpreter_defineNative("help", 0, new("OT_CALLABLE", NULL, FALSE, 0, "help", m))))))

\* the machine over the heap h in which the global environment was made
\* (h.ret): the fields interpreter_init sets, and main.c's state
NewMachine(h, isREPL, session, gcDebug) ==
    [gc |-> h.gc, obj |-> h.obj, env |-> h.env, fun |-> h.fun, cls |-> h.cls,
     inst |-> h.inst, arg |-> h.arg, fault |-> h.fault, swept |-> {},
     ret |-> NULL, error |-> NoError,
     stack |-> <<[Frame(IF isREPL THEN "repl" ELSE "runFile", NULL)
                     EXCEPT !.pc = IF isREPL THEN "read" ELSE "run"]>>,
     val |-> NULL,
     it |-> [environment |-> h.ret, globals |-> h.ret,
             locals |-> [n \in 1..Len(AST) |-> NoLocal],
             runtimeError |-> NoError, isREPL |-> isREPL, exitREPL |-> FALSE],
     out |-> <<>>,
     run |-> [session |-> session, unit |-> 1, gcDebug |-> gcDebug,
              hadError |-> FALSE, hadRuntimeError |-> FALSE,
              exited |-> FALSE, exitCode |-> 0],
     probe |-> NoProbe]

\* interpreter_init
interpreter_init(isREPL, session, gcDebug) ==
    defineNatives(isREPL,
        interpreter_defineNative("clock", 0, new("OT_CALLABLE", NULL, FALSE, 0, "clock",
            NewMachine(env_initGlobal(gcInit), isREPL, session, gcDebug))))


(***************************************************************************)
(* Reachability, as the collector's contract states it.  A thing is a pair *)
(* <<kind, index>>.                                                        *)
(***************************************************************************)
ObjectsOf(values) == {<<"obj", values[i]>> : i \in {j \in 1..Len(values) : values[j] # NULL}}

Refs(x) ==
    LET k == x[1]
        i == x[2]
    IN CASE k = "obj" ->
              (CASE obj[i].type = "OT_CLASS" -> {<<"cls", obj[i].p>>}
                 [] obj[i].type = "OT_FUNCTION" -> {<<"fun", obj[i].p>>}
                 [] obj[i].type = "OT_INSTANCE" -> {<<"inst", obj[i].p>>}
                 [] obj[i].type = "OT_ARGUMENTS" -> {<<"arg", obj[i].p>>}
                 [] OTHER -> {})
         [] k = "env" ->
              ObjectsOf(SubSeq(env[i].values, 1, env[i].slotsUsed))
              \cup (IF env[i].enclosing = NULL THEN {}
                    ELSE {<<"env", env[i].enclosing>>})
         [] k = "fun" ->
              IF fun[i].closure = NULL THEN {} ELSE {<<"env", fun[i].closure>>}
         [] k = "cls" ->
              {<<"fun", cls[i].methods[m].function>> : m \in 1..Len(cls[i].methods)}
              \cup (IF cls[i].superClass = NULL THEN {}
                    ELSE {<<"cls", cls[i].superClass>>})
         [] k = "inst" ->
              {<<"cls", inst[i].klass>>}
              \cup ObjectsOf([f \in 1..Len(inst[i].fields) |-> inst[i].fields[f].value])
         [] k = "arg" -> ObjectsOf(arg[i].values)
         [] OTHER -> {}

RECURSIVE Closure(_)
Closure(S) ==
    LET T == S \cup UNION {Refs(x) : x \in S}
    IN IF T = S THEN S ELSE Closure(T)

\* the roots: the pin stack and the environments in use
Roots ==
    ObjectsOf(gc.locked)
    \cup {<<"env", e>> : e \in {i \in 1..Len(env) : env[i].isActive}}

Reachable == Closure(Roots)

\* a thing is held when the collector has not released it
Held(x) ==
    LET k == x[1]
        i == x[2]
    IN CASE k = "obj" -> obj[i].type # "OT_UNUSED" /\ i \in Range(gc.firstObject)
                         /\ i \notin Range(gc.firstUnused)
         [] k = "env" -> i \in Range(gc.firstEnvironment)
                         /\ i \notin Range(gc.firstUnusedEnvironment)
         [] k = "fun" -> fun[i].alive
         [] k = "cls" -> cls[i].alive
         [] k = "inst" -> inst[i].alive
         [] k = "arg" -> arg[i].alive
         [] OTHER -> FALSE

ReachableOf(kind) == {x[2] : x \in {y \in Reachable : y[1] = kind}}

(***************************************************************************)
(* The heap-level specification: a mutator that does to the heap what the  *)
(* evaluator's steps do (it builds values, pins them, stores them in       *)
(* environments and fields, opens and leaves environments), with a         *)
(* collection possible between any two steps.                              *)
(***************************************************************************)
HeapStep(name, h) ==
    /\ fault = ""
    /\ hops < MaxHeapOps
    /\ SetHeap(h)
    /\ op' = name
    /\ hops' = hops + 1
    /\ UNCHANGED <<cmp, stack, val, it, out, run, probe, ast>>

\* the value is pinned as GC_LOCK does; a full pin stack drops it
Pinned(h) == IF h.ret = NULL THEN h ELSE gcLock(h.ret, h)

\* obj_newNumber, pinned
HeapNewNumber == HeapStep("obj_newNumber", Pinned(obj_newNumber(1, FALSE, FALSE, Heap)))

\* function_init over a reachable environment and obj_wrapFunction, pinned
HeapNewFunction ==
    \E e \in ReachableOf("env") :
        /\ Len(fun) < MaxPayloads
        /\ LET h1 == function_init(1, e, FALSE, Heap)
           IN HeapStep("obj_wrapFunction", Pinned(obj_wrapFunction(h1.ret, FALSE, h1)))

\* classInit with a reachable superclass and at most one method, whose
\* closure is a reachable environment; obj_wrapClass, pinned
HeapNewClass ==
    \E super \in {NULL} \cup ReachableOf("cls"),
       e \in {NULL} \cup ReachableOf("env") :
        /\ Len(cls) < MaxPayloads
        /\ e # NULL => Len(fun) < MaxPayloads
        /\ LET h1 == IF e = NULL THEN Heap ELSE function_init(1, e, FALSE, Heap)
               methods == IF e = NULL THEN <<>>
                          ELSE <<[name |-> "m", function |-> h1.ret]>>
               h2 == [h1 EXCEPT !.cls = Append(@,
                          [alive |-> TRUE, marked |-> GC_CLEAR, name |-> "C",
                           superClass |-> super, methods |-> methods,
                           arity |-> 0])]
           IN HeapStep("obj_wrapClass", Pinned(obj_wrapClass(Len(h2.cls), FALSE, h2)))

\* instanceInit of a reachable class and obj_wrapInstance, pinned
HeapNewInstance ==
    \E k \in ReachableOf("cls") :
        /\ Len(inst) < MaxPayloads
        /\ LET h1 == instanceInit(k, Heap)
           IN HeapStep("obj_wrapInstance", Pinned(obj_wrapInstance(h1.ret, FALSE, h1)))

\* obj_dup of a reachable value (a variable or property read), pinned
HeapDup ==
    \E o \in ReachableOf("obj") :
        /\ obj[o].type \in {"OT_FUNCTION", "OT_CLASS", "OT_INSTANCE"}
        /\ HeapStep("obj_dup", Pinned(obj_dup(o, FALSE, Heap)))

\* argumentsInit and obj_wrapArguments, pinned
HeapNewArguments ==
    /\ Len(arg) < MaxPayloads
    /\ LET h1 == argumentsInit(Heap)
       IN HeapStep("obj_wrapArguments", Pinned(obj_wrapArguments(h1.ret, FALSE, h1)))

\* the pinned value on top moves into the arguments pinned below it
HeapArgument ==
    /\ Len(gc.locked) >= 2
    /\ LET a == gc.locked[Len(gc.locked) - 1]
           v == gc.locked[Len(gc.locked)]
       IN /\ obj[a].type = "OT_ARGUMENTS"
          /\ obj[v].type # "OT_ARGUMENTS"
          /\ HeapStep("argument",
                 gcPopLock([Heap EXCEPT !.arg[obj[a].p].values = Append(@, v),
                                        !.arg[obj[a].p].count = @ + 1]))

\* env_defineLocal / env_assignAt: the pinned value on top moves into a
\* slot of a reachable environment
HeapDefine ==
    \E e \in ReachableOf("env"), slot \in 1..2 :
        /\ gc.locked # <<>>
        /\ obj[gc.locked[Len(gc.locked)]].type # "OT_ARGUMENTS"
        /\ slot <= env[e].slotsUsed + 1
        /\ LET v == gc.locked[Len(gc.locked)]
               h1 == IF slot = env[e].slotsUsed + 1
                     THEN [Heap EXCEPT !.env[e].values = Append(@, v),
                                       !.env[e].slotsUsed = @ + 1]
                     ELSE [Heap EXCEPT !.env[e].values[slot] = v]
           IN HeapStep("env_define", gcPopLock(h1))

\* instanceSet: the pinned value on top becomes the field of an instance
HeapSetField ==
    \E i \in ReachableOf("inst") :
        /\ gc.locked # <<>>
        /\ obj[gc.locked[Len(gc.locked)]].type # "OT_ARGUMENTS"
        /\ LET v == gc.locked[Len(gc.locked)]
           IN HeapStep("instanceSet",
                  gcPopLock([Heap EXCEPT !.inst[i].fields =
                                             <<[name |-> "f", value |-> v]>>]))

HeapPopLock ==
    /\ gc.locked # <<>>
    /\ HeapStep("gcPopLock", gcPopLock(Heap))

\* env_init over a reachable environment
HeapEnvInit ==
    \E e \in ReachableOf("env") : HeapStep("env_init", env_init(e, FALSE, Heap))

\* env_release of an environment other than the globals
HeapEnvRelease ==
    \E e \in 2..Len(env) :
        /\ env[e].isActive
        /\ HeapStep("env_release", env_release(e, Heap))

HeapCollect == HeapStep("gcCollect", gcCollect(Heap))

NoComparison == [a |-> NULL, b |-> NULL, result |-> "none"]

\* the evaluator is not running
Idle ==
    /\ stack = <<>>
    /\ val = NULL
    /\ it = [environment |-> 1, globals |-> 1, locals |-> <<>>,
             runtimeError |-> NoError, isREPL |-> FALSE, exitREPL |-> FALSE]
    /\ out = <<>>
    /\ run = [session |-> 0, unit |-> 0, gcDebug |-> FALSE, hadError |-> FALSE,
              hadRuntimeError |-> FALSE, exited |-> FALSE, exitCode |-> 0]
    /\ probe = NoProbe
    /\ ast = <<>>

InitHeap(h) ==
    /\ gc = h.gc
    /\ obj = h.obj
    /\ env = h.env
    /\ fun = h.fun
    /\ cls = h.cls
    /\ inst = h.inst
    /\ arg = h.arg
    /\ fault = h.fault
    /\ swept = {}

\* classInit of a class without methods and obj_wrapClass, pinned
heapClass(super, h) ==
    Pinned(obj_wrapClass(Len(h.cls) + 1, FALSE,
               [h EXCEPT !.cls = Append(@,
                    [alive |-> TRUE, marked |-> GC_CLEAR, name |-> "C",
                     superClass |-> super, methods |-> <<>>, arity |-> 0])]))

\* env_define of the pinned value on top in a new slot, and its gcPopLock
heapDefine(e, h) ==
    gcPopLock([h EXCEPT !.env[e].values = Append(@, h.gc.locked[Len(h.gc.locked)]),
                        !.env[e].slotsUsed = @ + 1])

\* instanceInit of a class and obj_wrapInstance, pinned
heapInstance(klass, h) ==
    Pinned(obj_wrapInstance(Len(h.inst) + 1, FALSE, instanceInit(klass, h)))

\* the heap of a program that has declared a class, keeps an instance of it
\* in a global variable and has given the variable of the class another
\* value (class A {} var a = A(); A = nil;): the class is referred to by
\* the instance, and by a value nothing refers to any more
InstanceHeap ==
    gcPopLock(heapDefine(1, heapInstance(1, heapClass(NULL, env_initGlobal(gcInit)))))

\* the heaps the heap-level specification starts from: that of a fresh
\* interpreter, and that of the program with the instance
HeapStarts == {env_initGlobal(gcInit), InstanceHeap}

HeapInit ==
    /\ \E h \in HeapStarts : InitHeap(h)
    /\ op = "gcInit"
    /\ hops = 0
    /\ cmp = NoComparison
    /\ Idle

HeapNext ==
    \/ HeapNewNumber
    \/ HeapNewFunction
    \/ HeapNewClass
    \/ HeapNewInstance
    \/ HeapDup
    \/ HeapNewArguments
    \/ HeapArgument
    \/ HeapDefine
    \/ HeapSetField
    \/ HeapPopLock
    \/ HeapEnvInit
    \/ HeapEnvRelease
    \/ HeapCollect

SpecGC == HeapInit /\ [][HeapNext]_vars

\* C1: a collection, run between any two steps, releases nothing that is
\* reachable from the pin stack or from an environment in use: every
\* reachable value node, environment and payload is still held, so that no
\* node of the free lists (what the next allocation returns) is reachable.
C1_ReachableIsHeld == \A x \in Reachable : Held(x)

\* a collection has just released a wrapper node while a reachable class
\* keeps its superclass, which no tracked node wraps any more
C1_SuperclassOutlivesWrapper ==
    /\ op = "gcCollect"
    /\ \E x \in swept : x[1] = "obj"
    /\ \E k \in ReachableOf("cls") :
          /\ cls[k].superClass # NULL
          /\ \A o \in Range(gc.firstObject) :
                ~(obj[o].type = "OT_CLASS" /\ obj[o].p = cls[k].superClass)

(***************************************************************************)
(* The specification of isEqual: a heap holding values of every kind, two  *)
(* of which are drawn and compared.                                        *)
(***************************************************************************)
\* The values: every scalar kind, two natives, two functions of one
\* declaration over different closures and one of another declaration, two
\* classes, two instances of one class.
EqValues ==
    <<NewObject("OT_NIL", NULL, FALSE, 0, FALSE, ""),
      NewObject("OT_BOOLEAN", NULL, TRUE, 0, FALSE, ""),
      NewObject("OT_BOOLEAN", NULL, FALSE, 0, FALSE, ""),
      NewObject("OT_NUMBER", NULL, FALSE, 0, FALSE, ""),
      NewObject("OT_NUMBER", NULL, FALSE, 1, FALSE, ""),
      NewObject("OT_NUMBER", NULL, FALSE, 0, TRUE, ""),
      NewObject("OT_STRING", NULL, FALSE, 0, FALSE, ""),
      NewObject("OT_STRING", NULL, FALSE, 0, FALSE, "a"),
      NewObject("OT_CALLABLE", NULL, FALSE, 0, FALSE, "clock"),
      NewObject("OT_CALLABLE", NULL, FALSE, 0, FALSE, "help"),
      NewObject("OT_FUNCTION", 1, FALSE, 0, FALSE, ""),
      NewObject("OT_FUNCTION", 2, FALSE, 0, FALSE, ""),
      NewObject("OT_FUNCTION", 3, FALSE, 0, FALSE, ""),
      NewObject("OT_CLASS", 1, FALSE, 0, FALSE, ""),
      NewObject("OT_CLASS", 2, FALSE, 0, FALSE, ""),
      NewObject("OT_INSTANCE", 1, FALSE, 0, FALSE, ""),
      NewObject("OT_INSTANCE", 2, FALSE, 0, FALSE, "")>>

EqClass(name) ==
    [alive |-> TRUE, marked |-> GC_CLEAR, name |-> name, superClass |-> NULL,
     methods |-> <<>>, arity |-> 0]

\* a second environment, functions 1 and 2 of declaration 1 over the globals
\* and over the second environment, function 3 of declaration 2
EqPayloads(h) ==
    [function_init(2, 1, FALSE, function_init(1, h.ret, FALSE,
        function_init(1, 1, FALSE, h)))
     EXCEPT !.cls = <<EqClass("A"), EqClass("B")>>,
            !.inst = <<[alive |-> TRUE, marked |-> GC_CLEAR, klass |-> 1,
                        fields |-> <<>>],
                       [alive |-> TRUE, marked |-> GC_CLEAR, klass |-> 1,
                        fields |-> <<>>]>>]

\* the value is built as objNew builds it, and pinned
EqValue(index, h) == Pinned(objSet(EqValues[index], gcGetObject(FALSE, h)))

\* two values, the left one pinned below the right one
EqHeap(i, j) ==
    EqValue(j, EqValue(i, EqPayloads(env_init(1, FALSE, env_initGlobal(gcInit)))))

\* the operands are two nodes, or one node compared to itself
EqInit ==
    /\ op = "gcInit"
    /\ hops = 0
    /\ Idle
    /\ \E i \in 1..Len(EqValues), j \in 1..Len(EqValues), same \in BOOLEAN :
          /\ same => i = j
          /\ InitHeap(EqHeap(i, j))
          /\ cmp = [a |-> gc.locked[1],
                    b |-> IF same THEN gc.locked[1] ELSE gc.locked[2],
                    result |-> "none"]

\* the comparison of visitBinaryExpr's == case
EqCompare ==
    /\ cmp.result = "none"
    /\ cmp' = [cmp EXCEPT !.result = IF isEqual(cmp.a, cmp.b, Heap)
                                     THEN "true" ELSE "false"]
    /\ op' = "isEqual"
    /\ UNCHANGED <<gc, obj, env, fun, cls, inst, arg, fault, swept, hops>>
    /\ UNCHANGED <<stack, val, it, out, run, probe, ast>>

EqNext == EqCompare

SpecEq == EqInit /\ [][EqNext]_vars

\* the two operands refer to the same class or to the same instance
SameObject(a, b) ==
    /\ obj[a].type = obj[b].type
    /\ obj[a].type \in {"OT_CLASS", "OT_INSTANCE"}
    /\ obj[a].p = obj[b].p

\* C8: isEqual is reflexive for every value except NaN and symmetric for all
\* pairs of values; two values that refer to the same class or to the same
\* instance compare equal.
C8_EqualityLaws ==
    cmp.result # "none" =>
        /\ (cmp.result = "true") = isEqual(cmp.b, cmp.a, Heap)
        /\ (cmp.a = cmp.b /\ ~obj[cmp.a].nan) => cmp.result = "true"
        /\ SameObject(cmp.a, cmp.b) => cmp.result = "true"

(***************************************************************************)
(* The specification of the interpreter: a session is chosen, with or      *)
(* without GC_DEBUG, and run step by step.                                 *)
(***************************************************************************)
InitMachine(m) ==
    /\ InitHeap(m)
    /\ stack = m.stack
    /\ val = m.val
    /\ it = m.it
    /\ out = m.out
    /\ run = m.run
    /\ probe = m.probe

Init ==
    /\ ast = SyntaxTrees
    /\ \E session \in 1..Len(Sessions), gcDebug \in BOOLEAN :
          InitMachine(interpreter_init(Sessions[session].isREPL, session, gcDebug))
    /\ op = "interpreter_init"
    /\ hops = 0
    /\ cmp = NoComparison

\* the handler on top of the stack is f
Running(f) == fault = "" /\ stack # <<>> /\ stack[Len(stack)].f = f

Step(f, m) ==
    /\ SetMachine(m)
    /\ op' = f
    /\ UNCHANGED <<hops, cmp, ast>>

StepRepl == Running("repl") /\ Step("repl", repl(Top(Machine), Machine))
StepRunFile == Running("runFile") /\ Step("runFile", runFile(Top(Machine), Machine))
StepInterpret == Running("interpret") /\ Step("interpret", interpret(Top(Machine), Machine))
StepExecuteBlock ==
    Running("executeBlock")
    /\ Step("executeBlock", interpreter_executeBlock(Top(Machine), Machine))
StepFunctionCall ==
    Running("function_call") /\ Step("function_call", function_call(Top(Machine), Machine))
StepClassCall == Running("class_call") /\ Step("class_call", class_call(Top(Machine), Machine))
StepAssignExpr ==
    Running("Assign") /\ \E outcome \in Beyond :
           Step("Assign", interpreter_visitAssignExpr(Top(Machine), Reading(outcome)))
StepBinaryExpr ==
    Running("Binary") /\ Step("Binary", interpreter_visitBinaryExpr(Top(Machine), Machine))
StepCallExpr ==
    Running("Call") /\ Step("Call", interpreter_visitCallExpr(Top(Machine), Machine))
StepGetExpr ==
    Running("Get") /\ Step("Get", interpreter_visitGetExpr(Top(Machine), Machine))
StepGroupingExpr ==
    Running("Grouping")
    /\ Step("Grouping", interpreter_visitGroupingExpr(Top(Machine), Machine))
StepLiteralExpr ==
    Running("Literal") /\ Step("Literal", interpreter_visitLiteralExpr(Top(Machine), Machine))
StepLogicalExpr ==
    Running("Logical") /\ Step("Logical", interpreter_visitLogicalExpr(Top(Machine), Machine))
StepSetExpr ==
    Running("Set") /\ Step("Set", interpreter_visitSetExpr(Top(Machine), Machine))
StepSuperExpr ==
    Running("Super") /\ Step("Super", interpreter_visitSuperExpr(Top(Machine), Machine))
StepThisExpr ==
    Running("This") /\ Step("This", interpreter_visitThisExpr(Top(Machine), Machine))
StepUnaryExpr ==
    Running("Unary") /\ Step("Unary", interpreter_visitUnaryExpr(Top(Machine), Machine))
StepVariableExpr ==
    Running("Variable")
    /\ \E outcome \in Beyond :
           Step("Variable", interpreter_visitVariableExpr(Top(Machine), Reading(outcome)))
StepBlockStmt ==
    Running("Block") /\ Step("Block", interpreter_visitBlockStmt(Top(Machine), Machine))
StepClassStmt ==
    Running("Class") /\ \E outcome \in Beyond :
           Step("Class", interpreter_visitClassStmt(Top(Machine), Reading(outcome)))
StepExpressionStmt ==
    Running("Expression")
    /\ Step("Expression", interpreter_visitExpressionStmt(Top(Machine), Machine))
StepFunctionStmt ==
    Running("Function")
    /\ \E outcome \in Beyond :
           Step("Function", interpreter_visitFunctionStmt(Top(Machine), Reading(outcome)))
StepIfStmt == Running("If") /\ Step("If", interpreter_visitIfStmt(Top(Machine), Machine))
StepPrintStmt ==
    Running("Print") /\ Step("Print", interpreter_visitPrintStmt(Top(Machine), Machine))
StepReturnStmt ==
    Running("Return") /\ Step("Return", interpreter_visitReturnStmt(Top(Machine), Machine))
StepVarStmt == Running("Var") /\ \E outcome \in Beyond :
           Step("Var", interpreter_visitVarStmt(Top(Machine), Reading(outcome)))
StepWhileStmt ==
    Running("While") /\ Step("While", interpreter_visitWhileStmt(Top(Machine), Machine))

Next ==
    \/ StepRepl
    \/ StepRunFile
    \/ StepInterpret
    \/ StepExecuteBlock
    \/ StepFunctionCall
    \/ StepClassCall
    \/ StepAssignExpr
    \/ StepBinaryExpr
    \/ StepCallExpr
    \/ StepGetExpr
    \/ StepGroupingExpr
    \/ StepLiteralExpr
    \/ StepLogicalExpr
    \/ StepSetExpr
    \/ StepSuperExpr
    \/ StepThisExpr
    \/ StepUnaryExpr
    \/ StepVariableExpr
    \/ StepBlockStmt
    \/ StepClassStmt
    \/ StepExpressionStmt
    \/ StepFunctionStmt
    \/ StepIfStmt
    \/ StepPrintStmt
    \/ StepReturnStmt
    \/ StepVarStmt
    \/ StepWhileStmt

Spec == Init /\ [][Next]_vars

(***************************************************************************)
(* Properties of the interpreter                                           *)
(***************************************************************************)
\* the frames of the handlers that are running
Frames == {stack[i] : i \in 1..Len(stack)}

\* the values (Object pointers) the running handlers hold in their locals
ValuesInUse == {x \in UNION {{f.a, f.b} : f \in Frames} : x # NULL}

\* control is back in repl or runFile, or the program has ended
AtEntry == Len(stack) <= 1

\* interpret has just caught a runtime error or the exit of quit()
Unwound ==
    /\ op = "interpret"
    /\ Len(stack) = 1
    /\ (it.runtimeError # NoError \/ it.exitREPL)

\* C2: with a collection possible at every allocation of a value or an
\* environment (and run at every one under GC_DEBUG), no handler is left
\* holding something a collection released: every value a running handler
\* holds in a local (left operand, callee, arguments, receiver, assigned
\* value, superclass) is reachable from the pin stack or from an active
\* environment, and every environment and payload it holds is unreleased.
C2_InUseIsReachable ==
    /\ fault # "released value in use"
    /\ fault = "" =>
          /\ \A x \in ValuesInUse : <<"obj", x>> \in Reachable
          /\ \A x \in InUse(Machine) : Held(x)

\* under GC_DEBUG the allocation of a right operand has run a collection that
\* released something, while the left operand waits in visitBinaryExpr
C2_CollectedBetweenOperands ==
    /\ run.gcDebug
    /\ fault = ""
    /\ probe.released > 0
    /\ op = "Literal"
    /\ stack # <<>>
    /\ stack[Len(stack)].f = "Binary"
    /\ stack[Len(stack)].pc = "right"
    /\ stack[Len(stack)].a # NULL
    /\ val # NULL

\* C3: each access to a resolved variable (env_getAt, env_assignAt) finds,
\* after walking the recorded number of enclosing links, an environment in
\* which the recorded slot is in use.
C3_SlotInUse == probe.slot => probe.index < probe.slotsUsed

\* C4: function_call is never entered with a number of arguments different
\* from the number of parameters of the function it runs; in particular a
\* class called with k arguments runs an initializer of k parameters.
C4_ArityAtEntry == probe.call => probe.count = probe.arity

\* C5: whenever control is back at the outermost entry (the statements
\* completed, a runtime error was caught or quit() was caught) the current
\* environment is the global environment.
C5_GlobalsAtEntry == AtEntry => it.environment = it.globals

\* a runtime error or quit() thrown inside a block or a call was caught
C5_UnwoundFromInner ==
    /\ Unwound
    /\ fault = ""
    /\ probe.environment # it.globals
    /\ it.environment = it.globals

\* C6: after an unwind to interpret, by a runtime error or by quit(), the pin
\* stack is empty.
C6_NoPinsAfterUnwind == Unwound => gc.locked = <<>>

\* quit() was thrown in the REPL while values were pinned, and caught
C6_UnwoundWithPins ==
    /\ Unwound
    /\ it.exitREPL
    /\ probe.pins > 0
    /\ gc.locked = <<>>

\* the report of the runtime error that was caught: the last line written,
\* to stderr, with the line of the error's token counted from 1
Reported(error) ==
    /\ out # <<>>
    /\ out[Len(out)] = [stream |-> "stderr", text |-> error.message,
                         line |-> AST[error.token].line + 1]

\* C7: every runtime error that reaches interpret carries a token, and is
\* reported as its message and the line of that token.
C7_ErrorsCarryToken ==
    (Unwound /\ it.runtimeError # NoError) =>
        /\ it.runtimeError.token # NULL
        /\ Reported(it.runtimeError)

\* the faults of a step that operates on an absent value
AbsentValueFaults ==
    {"visitPrintStmt: assert(value != NULL)",
     "visitAssignExpr: assert(value != NULL)",
     "visitBinaryExpr: NULL dereferenced",
     "visitUnaryExpr: NULL dereferenced",
     "visitCallExpr: NULL dereferenced",
     "visitGetExpr: assert(object != NULL)",
     "visitSetExpr: assert(object != NULL)",
     "isTruthy: NULL dereferenced",
     "isLoxClass: NULL dereferenced",
     "obj_dup: NULL dereferenced",
     "env_assignAt: assert(value != NULL)",
     "env_assignGlobal: assert(value != NULL)",
     "env_defineThis: NULL dereferenced"}

\* C9: no step operates on an absent value: wherever the result of help() is
\* consumed it is a value, as nil is.
C9_HelpIsAValue == fault \notin AbsentValueFaults

\* C10: there are never more environments than LOX_MAX_ENVIRONMENTS; a
\* request that is refused leaves the collector's lists as they were; and
\* the refusal reaches interpret as the runtime error 'Stack overflow.',
\* which is reported.
C10_EnvironmentCap ==
    /\ gc.environmentsCount <= LOX_MAX_ENVIRONMENTS
    /\ Len(env) <= LOX_MAX_ENVIRONMENTS
    /\ probe.refused => probe.listsKept
    /\ (Unwound /\ probe.refused) =>
          /\ fault = ""
          /\ it.runtimeError.message = "Stack overflow."
          /\ Reported(it.runtimeError)

\* C11: the pin stack holds at most GC_LOCKS_STACK_SIZE pins; a pin asked
\* for when it is full leaves the pin stack as it is and raises the runtime
\* error "Stack overflow." at the token of the expression; no gcPopLock and
\* no gcPopLockn finds fewer pins than it removes.
C11_PinStackBounded ==
    /\ Len(gc.locked) <= GC_LOCKS_STACK_SIZE
    /\ fault \notin {"gcPopLock: assert(lockedCount > 0)",
                     "gcPopLockn: assert(lockedCount >= 0)"}
    /\ probe.full => probe.pinsKept
    /\ (Unwound /\ probe.full) =>
          /\ fault = ""
          /\ it.runtimeError.message = "Stack overflow."
          /\ it.runtimeError.token # NULL
          /\ Reported(it.runtimeError)

\* a pin was refused with the pin stack full, and the run was unwound
C11_PinRefused ==
    /\ Unwound
    /\ fault = ""
    /\ probe.full
    /\ probe.pins = GC_LOCKS_STACK_SIZE
    /\ gc.locked = <<>>

\* C12: a function_call that ends without error yields, for an initializer,
\* a value referring to the instance slot 0 of the function's closure holds
\* as this, whatever its body returned; for any other function the value its
\* body returned, or Nil when the body fell off its end.  A class call yields
\* a value referring to the instance it made.
C12_InitializerYieldsThis ==
    /\ probe.returned =>
          IF probe.initializer
          THEN /\ probe.type = "OT_INSTANCE"
               /\ probe.this # NULL
               /\ probe.referent = probe.this
          ELSE IF probe.fell THEN probe.type = "OT_NIL" ELSE probe.same
    /\ probe.constructed => (probe.made # NULL /\ probe.got = probe.made)

\* an initializer called as instance.init(...) has ended by a bare return
C12_ExplicitInitReturned ==
    /\ op = "function_call"
    /\ fault = ""
    /\ stack # <<>>
    /\ stack[Len(stack)].f = "Call"
    /\ probe.returned
    /\ probe.initializer
    /\ ~probe.fell
    /\ probe.constructed


\* the two Object nodes hold the same value
SameValue(x, y) ==
    /\ x.type = y.type /\ x.p = y.p /\ x.b = y.b
    /\ x.n = y.n /\ x.nan = y.nan /\ x.s = y.s

\* the field of the instance accessed last that has the name accessed, or 0
AccessedField == entryIndex(AST[probe.property].name, inst[probe.instance].fields)

\* the method the class chain of the instance accessed last declares under
\* the name accessed, or NULL
AccessedMethod ==
    NearestEntry(inst[probe.instance].klass, AST[probe.property].name, Machine)

\* the value is a function made by this access, bound to the instance: its
\* closure has the one slot this and encloses the closure of the method
BoundTo(value, instance, method) ==
    /\ value # NULL
    /\ obj[value].type = "OT_FUNCTION"
    /\ obj[value].p > probe.funs
    /\ fun[obj[value].p].declaration = fun[method].declaration
    /\ LET closure == fun[obj[value].p].closure
       IN /\ closure # NULL
          /\ closure # fun[method].closure
          /\ env[closure].slotsUsed = 1
          /\ env[closure].values[1] # NULL
          /\ obj[env[closure].values[1]].type = "OT_INSTANCE"
          /\ obj[env[closure].values[1]].p = instance
          /\ env[closure].enclosing = fun[method].closure

\* C13: a property access on an instance yields the field of that name when
\* there is one, also when the class chain has a method of that name;
\* otherwise a new function bound to the instance, over a new environment
\* whose one slot is this and that encloses the closure of the nearest method
\* of that name (or "Stack overflow." when no environment is left); and
\* "Undefined property" when there is neither.
C13_FieldsShadowMethods ==
    probe.access =>
        IF AccessedField # 0
        THEN /\ val # NULL
             /\ val # inst[probe.instance].fields[AccessedField].value
             /\ SameValue(obj[val],
                          obj[inst[probe.instance].fields[AccessedField].value])
        ELSE IF AccessedMethod # NULL
        THEN IF probe.refused
             THEN it.runtimeError.message = "Stack overflow."
             ELSE BoundTo(val, probe.instance, AccessedMethod)
        ELSE /\ Unwinding(Machine)
             /\ it.runtimeError =
                    initError(probe.property,
                        "Undefined property '" \o AST[probe.property].name \o "'.")

\* a field was read that has the name of a method of the class chain
C13_FieldOverMethod ==
    /\ probe.access
    /\ fault = ""
    /\ AccessedField # 0
    /\ AccessedMethod # NULL
    /\ val # NULL


\* the value a slot of an environment holds, as a node; NULL for none
SlotOf(environment, index) ==
    IF environment = NULL \/ index >= env[environment].slotsUsed THEN NULL
    ELSE env[environment].values[index + 1]

\* the class of the super expression evaluated last, and its receiver
SuperClass == obj[SlotOf(probe.superEnv, probe.superIndex)].p
Receiver == obj[SlotOf(probe.thisEnv, 0)].p

RECURSIVE ClassChain(_)
\* a class and its ancestors
ClassChain(klass) ==
    IF klass = NULL THEN {} ELSE {klass} \cup ClassChain(cls[klass].superClass)

\* the classes whose methods were declared over the environment
DeclaredOver(environment) ==
    {k \in 1..Len(cls) :
        \E i \in 1..Len(cls[k].methods) :
            fun[cls[k].methods[i].function].closure = environment}

\* C14: when a super expression is evaluated, the slot its side-table entry
\* names holds a Class, the superclass of the class whose methods were
\* declared there; slot 0 of the environment one level nearer holds an
\* Instance of that class or of a subclass; the method is the nearest one of
\* the superclass and its ancestors, bound to that instance ("Stack
\* overflow." when no environment is left, "Undefined property" when there
\* is no such method).
C14_SuperAboveThis ==
    /\ fault \notin {"obj_unwrapInstance: assert(obj->type == OT_INSTANCE)",
                     "obj_unwrapClass: assert(obj->type == OT_CLASS)"}
    /\ probe.super =>
        /\ SlotOf(probe.superEnv, probe.superIndex) # NULL
        /\ obj[SlotOf(probe.superEnv, probe.superIndex)].type = "OT_CLASS"
        /\ probe.thisEnv # NULL
        /\ env[probe.thisEnv].enclosing = probe.superEnv
        /\ SlotOf(probe.thisEnv, 0) # NULL
        /\ obj[SlotOf(probe.thisEnv, 0)].type = "OT_INSTANCE"
        /\ DeclaredOver(probe.superEnv) # {}
        /\ \A k \in DeclaredOver(probe.superEnv) :
              /\ cls[k].superClass = SuperClass
              /\ k \in ClassChain(inst[Receiver].klass)
        /\ IF NearestEntry(SuperClass, AST[probe.property].name, Machine) # NULL
           THEN IF probe.refused
                THEN it.runtimeError.message = "Stack overflow."
                ELSE BoundTo(val, Receiver,
                         NearestEntry(SuperClass, AST[probe.property].name, Machine))
           ELSE /\ Unwinding(Machine)
                /\ it.runtimeError.message =
                       "Undefined property '" \o AST[probe.property].name \o "'."

\* a super expression was evaluated in a function declared in a block of a
\* method, called after the method returned
C14_SuperInNestedFunction ==
    /\ probe.super
    /\ fault = ""
    /\ val # NULL
    /\ it.locals[probe.property].depth = 4
    /\ env[it.environment].enclosing # probe.thisEnv


\* the node the frame above frame k works on, NULL when k is the top
Above(k) == IF k < Len(stack) THEN stack[k + 1].n ELSE NULL

\* the call expression of frame k is where the order of evaluation puts it:
\* the callee is being evaluated and there is no argument yet; or argument
\* i is being evaluated, the callee is held and arguments 1 .. i - 1 are
\* stored; or the body runs, for a Function or a Class given as many
\* arguments as the expression has
CallInOrder(k) ==
    LET F == stack[k]
        xs == AST[F.n].xs
    IN CASE F.pc = "start" -> F.a = NULL /\ F.ar = NULL /\ F.i = 0
         [] F.pc = "callee" ->
               /\ F.a = NULL /\ F.ar = NULL /\ F.i = 0
               /\ Above(k) \in {NULL, AST[F.n].x}
         [] F.pc = "argument" ->
               /\ F.a # NULL /\ F.ar # NULL
               /\ F.i \in 1..Len(xs)
               /\ arg[F.ar].count = F.i - 1
               /\ Len(arg[F.ar].values) = F.i - 1
               /\ Above(k) \in {NULL, xs[F.i]}
         [] F.pc = "called" ->
               /\ F.a # NULL /\ F.ar # NULL
               /\ obj[F.a].type \in {"OT_FUNCTION", "OT_CLASS"}
               /\ F.i = Len(xs)
               /\ arg[F.ar].count = Len(xs)
               /\ k < Len(stack) =>
                     stack[k + 1].f =
                        (IF obj[F.a].type = "OT_FUNCTION"
                         THEN "function_call" ELSE "class_call")

\* a body is entered from a call expression whose callee is a Function or a
\* Class, or as the initializer of a class call
BodyEntered(k) ==
    /\ k > 1
    /\ \/ stack[k - 1].f = "Call" /\ stack[k - 1].pc = "called"
       \/ stack[k].f = "function_call" /\ stack[k - 1].f = "class_call"

\* C15: in a call expression the callee is evaluated first, then the
\* arguments from left to right; a body is entered only for a Function or a
\* Class; a callee that is none of Native, Function and Class raises "Can
\* only call functions and classes." and the call enters nothing.
C15_CalleeThenArguments ==
    fault = "" =>
        /\ \A k \in 1..Len(stack) :
              /\ stack[k].f = "Call" => CallInOrder(k)
              /\ stack[k].f \in {"function_call", "class_call"} => BodyEntered(k)
        /\ probe.notCallable =>
              /\ Unwinding(Machine)
              /\ it.runtimeError =
                     initError(probe.property, "Can only call functions and classes.")

\* the second argument of a call is being evaluated, a call itself, and its
\* body runs
C15_SecondArgumentRunning ==
    /\ fault = ""
    /\ \E k \in 1..Len(stack) :
          /\ stack[k].f = "Call"
          /\ stack[k].pc = "argument"
          /\ stack[k].i = 2
          /\ k + 2 <= Len(stack)
          /\ stack[k + 1].f = "Call"
          /\ stack[k + 2].f = "function_call"


\* the errors the operand checks of a binary expression raise
OperandErrors ==
    {"Operands must be numbers.", "Operands must be two numbers or two strings.",
     "Division by zero."}

\* the step raises a runtime error with one of the messages
Raises(messages) ==
    /\ it'.runtimeError # it.runtimeError
    /\ it'.runtimeError.message \in messages

\* the step is taken by the handler f at pc and starts the evaluation of a
\* node
Starts(f, pc, node) ==
    /\ stack # <<>>
    /\ stack[Len(stack)].f = f
    /\ stack[Len(stack)].pc = pc
    /\ Len(stack') = Len(stack) + 1
    /\ stack'[Len(stack')].n = node

\* C16: a binary expression starts the evaluation of its left operand
\* first and that of its right operand when the left one has returned; an
\* operand type error or "Division by zero." is raised by the step that
\* follows the return of the right operand, never earlier.
C16_OperandsBeforeCheck ==
    [][/\ \A n \in 1..Len(AST) :
            (AST[n].k = "Binary" /\ stack # <<>> /\ stack[Len(stack)].n = n
                /\ stack[Len(stack)].f = "Binary" /\ Len(stack') = Len(stack) + 1)
            => \/ Starts("Binary", "start", AST[n].x)
               \/ Starts("Binary", "left", AST[n].y)
       /\ Raises(OperandErrors) =>
            /\ stack # <<>>
            /\ stack[Len(stack)].f = "Binary"
            /\ stack[Len(stack)].pc = "right"
            /\ val # NULL]_vars

\* a division by zero was reported after both operands had printed
C16_BothOperandsPrinted ==
    /\ Unwound
    /\ fault = ""
    /\ it.runtimeError.message = "Division by zero."
    /\ Len(out) >= 3
    /\ out[Len(out) - 2].text = "1"
    /\ out[Len(out) - 1].text = "0"


\* a value that is neither nil nor false
Truthy(value) ==
    /\ obj[value].type # "OT_NIL"
    /\ ~(obj[value].type = "OT_BOOLEAN" /\ ~obj[value].b)

\* the left operand decides the logical expression of node n
Decided(n, left) ==
    \/ AST[n].name = "or" /\ Truthy(left)
    \/ AST[n].name = "and" /\ ~Truthy(left)

\* the step ends the handler on top of the stack, which yields value
Yields(value) ==
    /\ stack' = SubSeq(stack, 1, Len(stack) - 1)
    /\ val' = value

\* C17: a logical expression evaluates its left operand; when that value
\* decides it (truthy for or, falsey for and) the expression yields that
\* value and the evaluation of the right operand is never started;
\* otherwise the right operand is evaluated, once, and its value is the
\* result.
C17_ShortCircuit ==
    [][(/\ stack # <<>>
        /\ stack[Len(stack)].f = "Logical"
        /\ fault' = ""
        /\ ~Raises({"Stack overflow."}))
       => LET F == stack[Len(stack)]
          IN CASE F.pc = "start" -> Starts("Logical", "start", AST[F.n].x)
               [] F.pc = "left" ->
                     IF Decided(F.n, val) THEN Yields(val)
                     ELSE Starts("Logical", "left", AST[F.n].y)
                          /\ stack'[Len(stack)].pc = "right"
               [] F.pc = "right" -> Yields(val)]_vars

\* both short cuts were taken: the run printed nil, nil, 2, 2 and neither
\* the 1 nor the 3 of the right operands
C17_RightOperandsSkipped ==
    /\ fault = ""
    /\ Len(out) = 4
    /\ [i \in 1..4 |-> out[i].text] = <<"nil", "nil", "2", "2">>


\* the handler on top of the stack has received a Return from the statement
\* it executed
Bubbling ==
    /\ stack # <<>>
    /\ val # NULL
    /\ <<stack[Len(stack)].f, stack[Len(stack)].pc>> \in
          {<<"executeBlock", "statement">>, <<"Block", "done">>,
           <<"If", "done">>, <<"While", "body">>}

\* the function_call on top of the stack has received a Return from its body
Returning ==
    /\ stack # <<>>
    /\ val # NULL
    /\ stack[Len(stack)].f = "function_call"
    /\ stack[Len(stack)].pc = "body"

\* the call expression on top of the stack has received the value of its call
Called ==
    /\ stack # <<>>
    /\ stack[Len(stack)].f = "Call"
    /\ stack[Len(stack)].pc = "called"
    /\ stack[Len(stack)].error = NoError

\* the executeBlock frames whose environment was made the current one
EnteredBlocks ==
    {k \in 1..Len(stack) : stack[k].f = "executeBlock" /\ stack[k].pc # "start"}

\* the current environment is the one of the innermost block being executed
EnvironmentOfBlock ==
    it.environment =
        IF EnteredBlocks = {} THEN it.globals
        ELSE stack[CHOOSE k \in EnteredBlocks : \A j \in EnteredBlocks : j <= k].e

\* C18: a Return handed to a block, an if or a while statement ends it at
\* once, with that Return and nothing printed or started; a block restores
\* the environment it found; the function_call that receives the Return
\* yields its value (an initializer yields this) to the call expression,
\* which yields it to its caller; and at every moment the current
\* environment is that of the innermost block being executed, so that after
\* the call it is the caller's.
C18_ReturnEndsTheCall ==
    /\ []((fault = "" /\ ~Unwinding(Machine)) => EnvironmentOfBlock)
    /\ [][/\ (Bubbling /\ fault' = "") =>
               /\ Yields(val)
               /\ out' = out
               /\ stack[Len(stack)].f = "executeBlock" =>
                     it'.environment = stack[Len(stack)].prev
          /\ (Returning /\ fault' = "") =>
               /\ stack' = SubSeq(stack, 1, Len(stack) - 1)
               /\ out' = out
               /\ it'.environment = it.environment
               /\ ~fun[stack[Len(stack)].fn].isInitializer => val' = val
          /\ (Called /\ fault' = "") => Yields(val)]_vars

\* a Return made in an if statement in a loop has reached the while statement
C18_ReturnLeavesLoop ==
    /\ fault = ""
    /\ Bubbling
    /\ stack[Len(stack)].f = "While"
    /\ obj[val].type = "OT_NUMBER"
    /\ obj[val].n = 1


\* interpret is about to run the catch case of a runtime error
Caught ==
    /\ fault = ""
    /\ stack # <<>>
    /\ stack[Len(stack)].f = "interpret"
    /\ stack[Len(stack)].pc = "RUNTIME_ERROR"

\* repl is about to end the round of a line that raised a runtime error
RoundOfError ==
    /\ fault = ""
    /\ Len(stack) = 1
    /\ stack[1].f = "repl"
    /\ stack[1].pc = "round"
    /\ it.runtimeError # NoError

\* the global bindings are what they were, and their values still exist
GlobalsKept ==
    /\ it'.globals = it.globals
    /\ env'[it.globals].names = env[it.globals].names
    /\ env'[it.globals].values = env[it.globals].values
    /\ \A k \in 1..Len(env[it.globals].values) :
          LET value == env[it.globals].values[k]
          IN  value # NULL => obj'[value].type = obj[value].type

\* C19: a runtime error that reaches interpret is reported and control is
\* back in repl or runFile with nothing else executed or printed and the
\* global bindings as they were; runFile then ends with exit code 70 and the
\* report as the last line; repl ends the round and reads the next line
\* with hadError and the runtime error cleared, the same globals as the
\* current environment and the bindings kept.
C19_ErrorEndsUnitOnly ==
    /\ []((run.exited /\ run.hadRuntimeError /\ ~Sessions[run.session].isREPL) =>
            /\ run.exitCode = 70
            /\ out # <<>>
            /\ out[Len(out)].stream = "stderr")
    /\ [][/\ Caught =>
               /\ fault' = ""
               /\ stack' = <<stack[1]>>
               /\ Len(out') = Len(out) + 1
               /\ Reported(it.runtimeError)'
               /\ it'.environment = it.globals
               /\ GlobalsKept
          /\ RoundOfError =>
               /\ fault' = ""
               /\ stack' = <<[stack[1] EXCEPT !.pc = "read"]>>
               /\ out' = out
               /\ run'.unit = run.unit + 1
               /\ ~run'.exited
               /\ ~run'.hadError
               /\ it'.runtimeError = NoError
               /\ it'.environment = it.globals
               /\ GlobalsKept]_vars


RECURSIVE ReturnsOutside(_)
\* the return statements of a statement that no function or method
\* declaration encloses
ReturnsOutside(stmt) ==
    CASE AST[stmt].k = "Return" -> {stmt}
      [] AST[stmt].k = "Block" ->
            UNION {ReturnsOutside(AST[stmt].xs[i]) : i \in 1..Len(AST[stmt].xs)}
      [] AST[stmt].k = "If" ->
            ReturnsOutside(AST[stmt].y) \cup
            (IF AST[stmt].z # NULL THEN ReturnsOutside(AST[stmt].z) ELSE {})
      [] AST[stmt].k = "While" -> ReturnsOutside(AST[stmt].y)
      [] OTHER -> {}

\* the line or file resolved last
Resolved == Sessions[run.session].units[probe.resolved]

\* the tokens the resolver reported with that message
ReportedWith(message) ==
    {probe.reports[i].token :
        i \in {j \in 1..Len(probe.reports) : probe.reports[j].message = message}}

\* C20: the return statements the resolver rejects with 'Cannot return from
\* top-level code.' are exactly those of the line or file that no function or
\* method declaration encloses, wherever they stand (after a function
\* declaration, in a block, in an if or a while statement), and resolve ends
\* in the function context it began in (none).
C20_TopLevelReturnsRejected ==
    probe.resolved # 0 =>
        /\ ReportedWith("Cannot return from top-level code.") =
               UNION {ReturnsOutside(Resolved[i]) : i \in 1..Len(Resolved)}
        /\ probe.context = "FT_NONE"

\* a line with a return in a function, one after that function's declaration
\* and one in a block was resolved, and two returns were rejected
C20_ReturnAfterFunction ==
    /\ probe.resolved # 0
    /\ Cardinality(ReportedWith("Cannot return from top-level code.")) = 2
    /\ \E i \in 1..Len(Resolved), j \in 1..Len(Resolved) :
          /\ i < j
          /\ AST[Resolved[i]].k = "Function"
          /\ AST[Resolved[j]].k = "Return"
          /\ Resolved[j] \in ReportedWith("Cannot return from top-level code.")
    /\ \E i \in 1..Len(Resolved) :
          /\ AST[Resolved[i]].k = "Block"
          /\ ReturnsOutside(Resolved[i]) # {}


RECURSIVE ValueReturns(_, _)
\* the return statements with a value in a statement whose nearest enclosing
\* function declaration is a class method named init; initializer tells
\* whether the statement itself stands in such a method
ValueReturns(stmt, initializer) ==
    CASE AST[stmt].k = "Return" ->
            IF initializer /\ AST[stmt].x # NULL THEN {stmt} ELSE {}
      [] AST[stmt].k = "Block" ->
            UNION {ValueReturns(AST[stmt].xs[i], initializer) :
                      i \in 1..Len(AST[stmt].xs)}
      [] AST[stmt].k = "If" ->
            ValueReturns(AST[stmt].y, initializer) \cup
            (IF AST[stmt].z # NULL THEN ValueReturns(AST[stmt].z, initializer) ELSE {})
      [] AST[stmt].k = "While" -> ValueReturns(AST[stmt].y, initializer)
      [] AST[stmt].k = "Function" ->
            UNION {ValueReturns(AST[stmt].xs[i], FALSE) : i \in 1..Len(AST[stmt].xs)}
      [] AST[stmt].k = "Class" ->
            UNION {UNION {ValueReturns(AST[AST[stmt].xs[i]].xs[j],
                                       AST[AST[stmt].xs[i]].name = "init") :
                             j \in 1..Len(AST[AST[stmt].xs[i]].xs)} :
                      i \in 1..Len(AST[stmt].xs)}
      [] OTHER -> {}

\* C21: the return statements the resolver rejects with 'Cannot return a
\* value from an initializer.' are exactly the returns with a value whose
\* nearest enclosing function is a class method named init: a bare return in
\* init, a return with a value in a function or in another method declared
\* inside init, and one in a function named init are accepted.
C21_InitializerReturnsRejected ==
    probe.resolved # 0 =>
        ReportedWith("Cannot return a value from an initializer.") =
            UNION {ValueReturns(Resolved[i], FALSE) : i \in 1..Len(Resolved)}

\* a line was resolved in which an initializer returns values in a block,
\* after a nested class and in the init of that nested class, whose other
\* method returns a value too: three returns were rejected, one accepted
C21_NestedInitializers ==
    /\ probe.resolved # 0
    /\ Len(probe.reports) = 3
    /\ Cardinality(ReportedWith("Cannot return a value from an initializer.")) = 3
    /\ \E i \in 1..Len(Resolved) :
          /\ AST[Resolved[i]].k = "Class"
          /\ \E j \in 1..Len(AST[Resolved[i]].xs) :
                AST[AST[Resolved[i]].xs[j]].name = "init"


\* the statements and expressions a syntax node is made of
Children(n) ==
    ({AST[n].x, AST[n].y, AST[n].z} \ {NULL}) \cup
    {AST[n].xs[i] : i \in 1..Len(AST[n].xs)}

RECURSIVE ClassUses(_, _)
\* the this and super expressions under a node, each with the kind of the
\* nearest class declaration around it: "none", "class" or "subclass"
ClassUses(n, class) ==
    IF AST[n].k \in {"This", "Super"} THEN {<<n, class>>}
    ELSE IF AST[n].k = "Class"
    THEN UNION {ClassUses(AST[n].xs[i],
                          IF AST[n].x # NULL THEN "subclass" ELSE "class") :
                   i \in 1..Len(AST[n].xs)}
    ELSE UNION {ClassUses(c, class) : c \in Children(n)}

\* the this or super expressions of the line or file resolved last that
\* stand in one of these class contexts
UsesIn(k, classes) ==
    {u[1] : u \in {v \in UNION {ClassUses(Resolved[i], "none") :
                                  i \in 1..Len(Resolved)} :
                      AST[v[1]].k = k /\ v[2] \in classes}}

\* C22: the resolver reports 'Cannot use 'this' outside of a class.' for
\* exactly the this expressions no class declaration encloses, 'Cannot use
\* 'super' outside of a class.' for exactly the super expressions no class
\* declaration encloses, and 'Cannot use 'super' in a class with no
\* superclass.' for exactly those whose nearest enclosing class declaration
\* has no superclass, whatever classes are declared around or before them.
C22_ClassContext ==
    probe.resolved # 0 =>
        /\ ReportedWith("Cannot use 'this' outside of a class.") =
               UsesIn("This", {"none"})
        /\ ReportedWith("Cannot use 'super' outside of a class.") =
               UsesIn("Super", {"none"})
        /\ ReportedWith("Cannot use 'super' in a class with no superclass.") =
               UsesIn("Super", {"class"})

\* a line was resolved in which a subclass declares a class without
\* superclass in a method and uses super after it: the super of the nested
\* class was rejected and the one that follows was not
C22_NestedClassRestored ==
    /\ probe.resolved # 0
    /\ Len(probe.reports) = 1
    /\ \E inner \in UsesIn("Super", {"class"}), outer \in UsesIn("Super", {"subclass"}) :
          /\ inner < outer
          /\ ReportedWith("Cannot use 'super' in a class with no superclass.") = {inner}


RECURSIVE Descendants(_)
\* a syntax node and everything it is made of
Descendants(n) == {n} \cup UNION {Descendants(c) : c \in Children(n)}

RECURSIVE LocalVars(_, _)
\* the var statements under a node that declare a local variable: those in
\* a block or in a function body
LocalVars(n, local) ==
    IF AST[n].k = "Var" THEN (IF local THEN {n} ELSE {})
    ELSE UNION {LocalVars(c, local \/ AST[n].k \in {"Block", "Function"}) :
                   c \in Children(n)}

\* the expressions of these kinds that use a local variable of the line or
\* file resolved last inside that variable's own initializer
OwnUses(kinds) ==
    UNION {{e \in (IF AST[v].x = NULL THEN {} ELSE Descendants(AST[v].x)) :
               AST[e].k \in kinds /\ AST[e].name = AST[v].name} :
           v \in UNION {LocalVars(Resolved[i], FALSE) : i \in 1..Len(Resolved)}}

\* C23: the resolver reports 'Cannot read local variable in its own
\* initializer.' for exactly the expressions, reads and assignments, that use
\* a local variable inside its own initializer, and a line or file with such
\* an expression is not evaluated.
C23_OwnInitializerRejected ==
    probe.resolved # 0 =>
        /\ ReportedWith("Cannot read local variable in its own initializer.") =
               OwnUses({"Variable", "Assign"})
        /\ OwnUses({"Variable", "Assign"}) # {} =>
               \/ run.unit # probe.resolved
               \/ run.exited /\ run.exitCode = 65


\* the indexes of the bindings of a name in the global environment
Bindings(name, environments) ==
    {i \in 1..Len(environments[it.globals].names) :
        environments[it.globals].names[i] = name}

\* the handler on top of the stack is about to look up or assign the
\* variable of a node that has no entry in the side table
UsesGlobal(n) ==
    /\ fault = ""
    /\ stack # <<>>
    /\ stack[Len(stack)].n = n
    /\ \/ stack[Len(stack)].f = "Variable"
       \/ stack[Len(stack)].f = "Assign" /\ stack[Len(stack)].pc # "start"
    /\ it.locals[n] = NoLocal

\* the handler on top of the stack is about to define the variable of a var
\* statement in the global environment
DefinesGlobal(n) ==
    /\ fault = ""
    /\ stack # <<>>
    /\ stack[Len(stack)].n = n
    /\ stack[Len(stack)].f = "Var"
    /\ stack[Len(stack)].pc = "start" => AST[n].x = NULL
    /\ it.environment = it.globals

\* C24: a variable expression or assignment without a side-table entry uses
\* the globals table: when the name has no binding there the step raises
\* "Undefined variable" and the bindings and their values are what they
\* were; a var statement at top level leaves exactly one binding of its
\* name, holding the new value, and every other binding as it was; no name
\* is ever bound twice.
C24_GlobalsTable ==
    /\ [](\A i, j \in 1..Len(env[it.globals].names) :
             env[it.globals].names[i] = env[it.globals].names[j] => i = j)
    /\ [][\A n \in 1..Len(AST) :
            /\ (UsesGlobal(n) /\ Bindings(AST[n].name, env) = {}) =>
                  /\ fault' = ""
                  /\ Raises({"Undefined variable '" \o AST[n].name \o "'.",
                             "Stack overflow."})
                  /\ env'[it.globals].names = env[it.globals].names
                  /\ env'[it.globals].values = env[it.globals].values
            /\ DefinesGlobal(n) =>
                  /\ fault' = ""
                  /\ it'.runtimeError = it.runtimeError
                  /\ Cardinality(Bindings(AST[n].name, env')) = 1
                  /\ \A i \in Bindings(AST[n].name, env') :
                        env'[it.globals].values[i] =
                            IF stack[Len(stack)].pc = "start" THEN NULL ELSE val
                  /\ \A i \in 1..Len(env[it.globals].names) :
                        /\ env'[it.globals].names[i] = env[it.globals].names[i]
                        /\ AST[n].name # env[it.globals].names[i] =>
                              env'[it.globals].values[i] = env[it.globals].values[i]]_vars


\* the payload records of a kind that have not been freed
Alive(kind) ==
    CASE kind = "fun" -> {i \in 1..Len(fun) : fun[i].alive}
      [] kind = "cls" -> {i \in 1..Len(cls) : cls[i].alive}
      [] kind = "inst" -> {i \in 1..Len(inst) : inst[i].alive}

\* the payload records of a kind that have not been freed after the step
AliveNext(kind) ==
    CASE kind = "fun" -> {i \in 1..Len(fun') : fun'[i].alive}
      [] kind = "cls" -> {i \in 1..Len(cls') : cls'[i].alive}
      [] kind = "inst" -> {i \in 1..Len(inst') : inst'[i].alive}

\* C25: a collection leaves on the free list of value nodes every tracked
\* node that was not reachable from the pin stack or an environment in use
\* when it started, on the free list of environments every tracked
\* environment that was not reachable, and has freed every Function, Class
\* and Instance payload that was not reachable.
C25_UnreachableIsReclaimed ==
    [][op' = "gcCollect" /\ fault' = "" =>
         /\ Range(gc.firstObject) \ ReachableOf("obj") \subseteq Range(gc'.firstUnused)
         /\ Range(gc.firstEnvironment) \ ReachableOf("env")
                \subseteq Range(gc'.firstUnusedEnvironment)
         /\ \A kind \in {"fun", "cls", "inst"} :
               AliveNext(kind) \subseteq ReachableOf(kind)]_vars


\* C26: an instance never holds more than LOX_INSTANCE_MAX_FIELDS fields, and
\* no set expression reaches instanceSet with a new field name for an
\* instance whose field table is full (the entry it would write,
\* fields[LOX_INSTANCE_MAX_FIELDS], is outside the table).
C26_FieldsBounded ==
    /\ \A i \in 1..Len(inst) : Len(inst[i].fields) <= LOX_INSTANCE_MAX_FIELDS
    /\ fault # "instanceSet: assert(fieldsCount < LOX_INSTANCE_MAX_FIELDS)"


\* the names of the global environment that are bound to a native function
Natives ==
    {env[it.globals].names[i] :
        i \in {j \in 1..Len(env[it.globals].names) :
                  /\ env[it.globals].values[j] # NULL
                  /\ obj[env[it.globals].values[j]].type = "OT_CALLABLE"}}

\* a handler is on the stack and no fault has stopped the process: there is
\* a step to take (the guard of every action of Next)
Scheduled == fault = "" /\ stack # <<>>

\* the interpreter as a running process: the step of the handler on top of
\* the stack is eventually taken.  This is WF_vars(Next), with
\* ENABLED <<Next>>_vars written as the guard of the actions.
SpecFair == Spec /\ ([]<>(~Scheduled) \/ []<><<Next>>_vars)

\* C27: interpreter_init binds clock, help, quit and env in interactive mode
\* and clock alone in file mode.  Once quit() was evaluated in interactive
\* mode, the only steps are the unwinding in interpret and the end of the
\* round in repl: nothing is printed, no statement is executed, no line is
\* resolved, no global changes; and the REPL loop ends, with lines unread
\* if there were any.
C27_QuitEndsRepl ==
    /\ [](op = "interpreter_init" =>
             /\ env[it.globals].names = IF it.isREPL THEN <<"clock", "help", "quit", "env">>
                                        ELSE <<"clock">>
             /\ Natives = Range(env[it.globals].names))
    /\ [][it.exitREPL =>
             /\ it.isREPL
             /\ op' \in {"interpret", "repl"}
             /\ out' = out
             /\ probe'.resolved = probe.resolved
             /\ env'[it.globals].names = env[it.globals].names
             /\ env'[it.globals].values = env[it.globals].values
             /\ it'.exitREPL]_vars
    /\ (it.exitREPL ~> (stack = <<>> /\ run.exited))

\* quit() has ended the REPL after the first statements of a line had
\* printed, with another line still unread
C27_QuitBeforeEnd ==
    /\ it.exitREPL
    /\ run.exited
    /\ stack = <<>>
    /\ out # <<>>
    /\ run.unit <= Len(Sessions[run.session].units)
    /\ Len(Sessions[run.session].units[run.unit - 1]) > 3


\* the kinds of syntax-tree node: the frames of expression evaluations and
\* statement executions
Visited == {AST[n].k : n \in 1..Len(AST)}

\* the step ends the evaluation or execution on top of the stack, and no
\* runtime error or exit is unwinding
Completes ==
    /\ fault = "" /\ fault' = ""
    /\ stack # <<>>
    /\ stack[Len(stack)].f \in Visited
    /\ Len(stack') = Len(stack) - 1
    /\ ~Unwinding(Machine)
    /\ it'.runtimeError = it.runtimeError
    /\ it'.exitREPL = it.exitREPL

\* C28: an expression evaluation or statement execution that completes
\* without a runtime error, a return statement and the statements a return
\* ends included, leaves the pin stack at the depth it had on entry; and the
\* pin stack is empty whenever interpret is between two top-level
\* statements.
C28_PinsBalanced ==
    /\ [](Running("interpret") /\ stack[Len(stack)].pc = "loop" => gc.locked = <<>>)
    /\ [][Completes => Len(gc'.locked) = stack[Len(stack)].pins]_vars


\* a statement in a function called with pinned values has completed by
\* returning, with the pin stack as deep as on its entry
C28_ReturnedUnderPins ==
    /\ fault = ""
    /\ Bubbling
    /\ op \in {"Return", "If", "Block", "While", "executeBlock"}
    /\ stack[Len(stack)].pins > 0
    /\ Len(gc.locked) = stack[Len(stack)].pins


\* C29: after a collection the threshold of values is the larger of twice
\* the number of values in use and the number of value nodes of the pool,
\* and the threshold of environments the larger of twice the number of
\* environments in use and the number of environments of the pool.
C29_Thresholds ==
    (op = "gcCollect" /\ fault = "") =>
        /\ gc.maxObjects = Max(2 * Len(gc.firstObject), gc.objectsCount)
        /\ gc.maxEnvironments =
               Max(2 * Len(gc.firstEnvironment), gc.environmentsCount)


\* the step ends the block statement or the function_call on top of the
\* stack, after its statements, without a runtime error
Leaves(f) ==
    /\ fault = "" /\ fault' = ""
    /\ stack # <<>>
    /\ stack[Len(stack)].f = f
    /\ stack[Len(stack)].pc # "start"
    /\ ~Unwinding(Machine)
    /\ Len(stack') = Len(stack) - 1
    /\ stack'[Len(stack')].error = NoError
    /\ it'.runtimeError = it.runtimeError

\* the released environments that a closure keeps reachable
Captured == {e \in ReachableOf("env") : ~env[e].isActive}

\* the environment the side-table entry of a node leads to
TargetOf(n) == env_ancestor(it.locals[n].depth, it.environment, Machine)

\* the handler on top of the stack is about to read or assign, through the
\* side table, a variable of a released environment
UsesReleased(n) ==
    /\ fault = ""
    /\ stack # <<>>
    /\ stack[Len(stack)].n = n
    /\ \/ stack[Len(stack)].f = "Variable"
       \/ stack[Len(stack)].f = "Assign" /\ stack[Len(stack)].pc # "start" /\ val # NULL
    /\ it.locals[n] # NoLocal
    /\ TargetOf(n) # NULL
    /\ ~env[TargetOf(n)].isActive

\* the value node x is a duplicate of y
Duplicate(x, y) ==
    /\ x.type = y.type /\ x.p = y.p /\ x.b = y.b
    /\ x.n = y.n /\ x.nan = y.nan /\ x.s = y.s

\* C30: a block statement or a function_call that ends without a runtime
\* error, normally or by a return, leaves its environment flagged inactive
\* and the current environment as it was on entry.  A released environment
\* that a closure keeps reachable is not recycled, nor are its values,
\* whatever collections run: a read through the side table yields a
\* duplicate of the slot's value and an assignment stores a duplicate of the
\* assigned value in the slot.
C30_ReleasedStaysUsable ==
    /\ [](fault = "" =>
            \A e \in Captured :
               /\ Held(<<"env", e>>)
               /\ \A i \in 1..env[e].slotsUsed :
                     env[e].values[i] # NULL => Held(<<"obj", env[e].values[i]>>))
    /\ [][/\ \A f \in {"Block", "function_call"} :
               Leaves(f) =>
                  /\ ~env'[stack[Len(stack)].e].isActive
                  /\ it'.environment = stack[Len(stack)].outer
          /\ \A n \in 1..Len(AST) :
               (UsesReleased(n) /\ it'.runtimeError = it.runtimeError) =>
                  /\ fault' = ""
                  /\ val' # NULL
                  /\ AST[n].k = "Variable" =>
                        LET value == env[TargetOf(n)].values[it.locals[n].index + 1]
                        IN IF value = NULL THEN obj'[val'].type = "OT_NIL"
                           ELSE Duplicate(obj'[val'], obj[value])
                  /\ AST[n].k = "Assign" =>
                        /\ env'[TargetOf(n)].values[it.locals[n].index + 1] # NULL
                        /\ Duplicate(obj'[env'[TargetOf(n)].values[it.locals[n].index + 1]],
                                     obj[val])]_vars

\* with a collection at every allocation, a variable of the released
\* environment of a call has been assigned twice through a closure
C30_CounterKept ==
    /\ fault = ""
    /\ run.gcDebug
    /\ op = "Assign"
    /\ \E e \in Captured :
          /\ env[e].slotsUsed > 0
          /\ env[e].values[1] # NULL
          /\ obj[env[e].values[1]].type = "OT_NUMBER"
          /\ obj[env[e].values[1]].n = 2


\* the table of the payloads of a kind in a heap
PayloadsOf(kind, h) ==
    CASE kind = "fun" -> h.fun
      [] kind = "cls" -> h.cls
      [] kind = "inst" -> h.inst

\* the type of the value nodes that wrap the payloads of a kind
WrapperOf(kind) ==
    CASE kind = "fun" -> "OT_FUNCTION"
      [] kind = "cls" -> "OT_CLASS"
      [] kind = "inst" -> "OT_INSTANCE"

\* the tracked wrappers of a payload that carry no visited-mark in a heap
UnmarkedWrappers(kind, p, h) ==
    {o \in Range(h.gc.firstObject) :
        /\ h.obj[o].type = WrapperOf(kind)
        /\ h.obj[o].p = p
        /\ h.obj[o].marked # h.gc.visitedMark}

\* what the sweep that follows the marking that left heap h does to the
\* payloads: one that marking did not reach and that has an unmarked
\* wrapper is freed, once; one that marking reached is kept
SweepsPayloads(h) ==
    \A kind \in {"fun", "cls", "inst"} :
        \A p \in {i \in 1..Len(PayloadsOf(kind, h)) : PayloadsOf(kind, h)[i].alive} :
            IF PayloadsOf(kind, h)[p].marked = h.gc.visitedMark
            THEN p \in AliveNext(kind)
            ELSE UnmarkedWrappers(kind, p, h) # {} =>
                     /\ p \notin AliveNext(kind)
                     /\ <<kind, p>> \in swept'
                     /\ fault' = ""

\* C31: in one sweep a Function, Class or Instance payload that marking did
\* not reach and that one or more unmarked value wrappers refer to is freed
\* exactly once (no second free of it is attempted), whatever the number
\* and the order of its wrappers; a payload that marking reached is not
\* freed, even when wrappers of it are released.
C31_PayloadFreedOnce ==
    [][op' = "gcCollect" /\ fault = "" => SweepsPayloads(gcMark(Heap))]_vars

\* a collection has just freed a function that two released wrappers
\* referred to
C31_TwoWrappersOnePayload ==
    /\ op = "gcCollect"
    /\ fault = ""
    /\ cls = <<>> /\ inst = <<>> /\ arg = <<>>
    /\ \E p \in 1..Len(fun) :
          /\ <<"fun", p>> \in swept
          /\ Cardinality({o \in 1..Len(obj) :
                              <<"obj", o>> \in swept /\ obj[o].p = p}) >= 2


\* the marks a collection that starts now tests for
Marks == {gc.visitedMark, gc.recycledMark}

\* the marks of the payloads of a kind that have not been freed
MarksOf(kind) == {PayloadsOf(kind, Heap)[p].marked : p \in Alive(kind)}

\* C32: whenever a collection can start (between any two steps), no tracked
\* value node, no tracked environment and no payload that has not been
\* freed carries the visited-mark or the recycled-mark of that collection,
\* also after the marks have wrapped back to 0 and 1.
C32_NoStaleMarks ==
    fault = "" =>
        /\ \A o \in Range(gc.firstObject) : obj[o].marked \notin Marks
        /\ \A e \in Range(gc.firstEnvironment) : env[e].marked \notin Marks
        /\ \A kind \in {"fun", "cls", "inst"} : MarksOf(kind) \cap Marks = {}


\* the probing for a name, with a given outcome of a read past the table,
\* reads positions of the table only and ends at the entry of the name or
\* at a free entry of the table
ProbesInside(name, m) ==
    /\ tableReads(name, str_hash(name), it.globals, m)
           \subseteq 0..(ENV_GLOBAL_HASH_SIZE - 1)
    /\ env_indexOf(name, it.globals, m) \in 0..(ENV_GLOBAL_HASH_SIZE - 1)
    /\ \/ tableEntry(env_indexOf(name, it.globals, m), it.globals, m) = 0
       \/ env[it.globals].names[tableEntry(env_indexOf(name, it.globals, m),
                                           it.globals, m)] = name

\* C33: the probing of the globals' hash table that a read, an assignment
\* or a definition of a global name is about to make reads only positions
\* 0..ENV_GLOBAL_HASH_SIZE-1, also when it starts at or passes the last
\* position, and ends at the entry of the name or at a free entry of the
\* table.
C33_ProbesInsideTable ==
    \A n \in {i \in 1..Len(AST) : stack # <<>> /\ stack[Len(stack)].n = i} :
        (UsesGlobal(n) \/ DefinesGlobal(n)) =>
            \A outcome \in Beyond : ProbesInside(AST[n].name, Reading(outcome))


\* the tracked environments that are not reachable from the pin stack or
\* from an environment in use: those a collection would recycle
Recyclable == Range(gc.firstEnvironment) \ ReachableOf("env")

\* C34: a request for an environment is refused only when the environments
\* reachable from the roots are as many as the cap allows: not while a
\* collection would recycle a tracked environment.
C34_RefusedOnlyAtCap ==
    [][(probe'.refused /\ ~probe.refused /\ fault' = "") =>
          /\ Recyclable = {}
          /\ Cardinality(ReachableOf("env")) = LOX_MAX_ENVIRONMENTS]_vars


\* the ways a use of the side table does not end
SideTableFaults ==
    {"localsGet: endless loop",
     "interpreter_resolve: assert(localsCount != LOCALS_HASH_MAP_SIZE)"}

\* C35: the lookup of an expression in the side table ends, with 'absent'
\* for an expression that was not recorded; recording an entry ends, and
\* the entries recorded before stay what they were; this however many
\* entries the lines of the session have recorded.
C35_SideTableEnds ==
    /\ [](fault \notin SideTableFaults)
    /\ [][\A n \in 1..Len(it.locals) :
              it.locals[n] # NoLocal => it'.locals[n] = it.locals[n]]_vars


\* control is between two top-level statements, or back in repl or runFile
\* after the last one or after an unwind
StatementBoundary ==
    /\ fault = ""
    /\ \/ Len(stack) <= 1
       \/ /\ Len(stack) = 2
          /\ stack[2].f = "interpret"
          /\ stack[2].pc = "loop"

\* the tracked environments flagged active: the roots among the environments
ActiveEnvironments == {e \in Range(gc.firstEnvironment) : env[e].isActive}

\* C36: at every boundary between top-level statements, after a statement
\* that completed and after the unwind of a runtime error or of quit(), the
\* global environment is the only environment flagged active.
C36_OnlyGlobalsActive ==
    StatementBoundary => ActiveEnvironments = {it.globals}


\* C37: executing a class declaration never writes a method entry outside the
\* method table allocated for the class: no class holds more than
\* LOX_METHODS_MAX_COUNT methods, and no run is stopped by the write of the
\* entry methods[LOX_METHODS_MAX_COUNT].
C37_MethodsInsideTable ==
    /\ \A k \in 1..Len(cls) : Len(cls[k].methods) <= LOX_METHODS_MAX_COUNT
    /\ fault # "visitClassStmt: methods[LOX_METHODS_MAX_COUNT] written"


\* the environments other than globals
LocalEnvironments == {e \in 1..Len(env) : e # it.globals}

\* names is the beginning of the names of a scope
BeginsScope(names, scope) ==
    /\ Len(names) <= Len(scope)
    /\ \A i \in 1..Len(names) : names[i] = scope[i]

\* C38: the definitions a local environment has received are, one per slot
\* and in declaration order, the first names of a scope the resolver closed;
\* so a local environment never holds more than LOX_MAX_LOCAL_VARIABLES
\* values (it is never full), and the runtime error 'Too many constants in
\* one chunk.' is raised only with the global environment full.
C38_LocalsFollowScopes ==
    /\ \A e \in LocalEnvironments :
           /\ env[e].slotsUsed = Len(env[e].names)
           /\ \E scope \in probe.scopes : BeginsScope(env[e].names, scope)
           /\ env[e].slotsUsed <= LOX_MAX_LOCAL_VARIABLES
    /\ (it.runtimeError # NoError
          /\ it.runtimeError.message = "Too many constants in one chunk.")
        => env[it.globals].slotsUsed = ENV_MAX_CAPACITY


\* a local environment holds a definition for each of the
\* LOX_MAX_LOCAL_VARIABLES names of a full scope
C38_FullScopeDefined ==
    \E e \in LocalEnvironments :
        /\ env[e].slotsUsed = LOX_MAX_LOCAL_VARIABLES
        /\ env[e].names \in probe.scopes


\* the runtime error thrown last is 'Stack overflow.', thrown with function
\* calls under way
Overflowed ==
    /\ it.runtimeError # NoError
    /\ it.runtimeError.message = "Stack overflow."
    /\ probe.calls > 0

\* 'Stack overflow.' was reported
OverflowReported ==
    \E i \in 1..Len(out) :
        out[i].stream = "stderr" /\ out[i].text = "Stack overflow."

\* C39: a chain of nested function calls is stopped after finitely many
\* calls: there are never more calls under way than the pin stack and the
\* environment cap allow (a call holds two pins and an environment); the
\* 'Stack overflow.' thrown by the request they refuse does not end the
\* process; interpret catches and reports it at the outermost entry, with
\* the current environment globals and the pin stack empty; and the REPL
\* that ends after it has run every line that followed.
C39_OverflowStopsCalls ==
    /\ 2 * callsOf(stack) <= GC_LOCKS_STACK_SIZE
    /\ callsOf(stack) < LOX_MAX_ENVIRONMENTS
    /\ Overflowed => fault = ""
    /\ (Unwound /\ Overflowed) =>
          /\ Reported(it.runtimeError)
          /\ it.environment = it.globals
          /\ gc.locked = <<>>
    /\ (OverflowReported /\ it.isREPL /\ ~it.exitREPL /\ stack = <<>>) =>
          probe.resolved = Len(Sessions[run.session].units)

=============================================================================
